---- MODULE Spec2Model ----
(***************************************************************************)
(* lufah: the mirror document (lufah.updatable.Updatable) and the Session  *)
(* that keeps it current (lufah.fahclient.FahClient).                      *)
(*                                                                         *)
(* JSON values are tagged tuples so that values of different JSON types    *)
(* can be compared:                                                        *)
(*   <<"null">>  <<"int", n>>  <<"str", s>>  <<"list", seq>>  <<"dict", f>> *)
(* A dict is a function from key names to values.  Python dicts accept int *)
(* keys as well as str keys; the int key n is named "#n".                  *)
(***************************************************************************)
EXTENDS Integers, Sequences, FiniteSets, TLC

\* ------------------------------------------------------------------------
\* Bounds of the model
\* ------------------------------------------------------------------------
\* number of do_update calls in one replay (SpecUpd)
MaxUpdates == 2
\* number of frames the peer sends after the snapshot (Spec)
MaxFrames == 2
\* a replay reads datetime.datetime.now() as one of 1..MaxClock
MaxClock == 2

\* ------------------------------------------------------------------------
\* JSON values
\* ------------------------------------------------------------------------
JNull == <<"null">>
JInt(n) == <<"int", n>>
JStr(s) == <<"str", s>>
JBool(b) == <<"bool", b>>
JList(q) == <<"list", q>>
JDict(f) == <<"dict", f>>

IsNull(v) == v[1] = "null"
IsInt(v) == v[1] = "int"
IsStr(v) == v[1] = "str"
IsList(v) == v[1] = "list"
\* _is_dict(o): o is not None and isinstance(o, dict)
is_dict(v) == v[1] = "dict"

EmptyList == JList(<<>>)
EmptyDict == JDict(<<>>)

\* the characters of a str (the strings of the model are listed here; any
\* other string of the model has one character)
StrChars(s) ==
  CASE s = "a-b" -> <<"a", "-", "b">>
    [] s = "a_b" -> <<"a", "_", "b">>
    [] s = "xy" -> <<"x", "y">>
    [] s = "ping" -> <<"p", "i", "n", "g">>
    [] s = "8.4" -> <<"8", ".", "4">>
    [] s = "8.1" -> <<"8", ".", "1">>
    [] s = "version" -> <<"v", "e", "r", "s", "i", "o", "n">>
    [] s = "info" -> <<"i", "n", "f", "o">>
    [] s = "" -> <<>>
    [] OTHER -> <<s>>

\* len(s); the one key of the model longer than 16 characters
StrLen(s) ==
  IF s = "this-key-is-too-long" THEN 20 ELSE Len(StrChars(s))

\* str.replace("-", "_")
ReplaceHyphens(s) ==
  CASE s = "a-b" -> "a_b"
    [] s = "-" -> "_"
    [] s = "this-key-is-too-long" -> "this_key_is_too_long"
    [] OTHER -> s

\* the name under which a dict holds key k (a str, an int or None)
Hashable(k) == k[1] \in {"str", "int", "null"}
DictKey(k) ==
  IF IsInt(k) THEN "#" \o ToString(k[2])
  ELSE IF IsNull(k) THEN "#None" ELSE k[2]

DictHas(d, k) == DictKey(k) \in DOMAIN d[2]
DictGet(d, k) == d[2][DictKey(k)]
\* obj = {key: value} in place of obj[key] = value
DictSetAlone(d, k, v) == JDict(DictKey(k) :> v)
DictSet(d, k, v) ==
  JDict([x \in (DOMAIN d[2]) \cup {DictKey(k)} |->
           IF x = DictKey(k) THEN v ELSE d[2][x]])
DictDel(d, k) ==
  JDict([x \in (DOMAIN d[2]) \ {DictKey(k)} |-> d[2][x]])

\* Python sequence indexing: index n of a sequence of length len, negative
\* n counting from the end; Pos is the 1-based position
InRange(len, n) == (-len <= n) /\ (n < len)
Pos(len, n) == IF n < 0 THEN n + len + 1 ELSE n + 1

ListLen(l) == Len(l[2])
ListGet(l, n) == l[2][Pos(ListLen(l), n)]
ListSet(l, n, v) == JList([l[2] EXCEPT ![Pos(ListLen(l), n)] = v])
ListAppend(l, v) == JList(Append(l[2], v))
\* obj.pop() in place of obj.pop(key)
ListPopLast(l, n) == JList(SubSeq(l[2], 1, ListLen(l) - 1))
ListPop(l, n) ==
  LET p == Pos(ListLen(l), n)
  IN JList(SubSeq(l[2], 1, p - 1) \o SubSeq(l[2], p + 1, ListLen(l)))

\* the key names of the model in the order dicts are iterated
KeyOrder == <<"a", "b", "c", "a-b", "a_b", "info", "version", "x", "y">>

\* iter(value) as list.extend sees it: the elements of a list, the
\* characters of a str, the keys of a dict
Iterable(v) == IsList(v) \/ IsStr(v) \/ is_dict(v)
IterItems(v) ==
  IF IsList(v) THEN v[2]
  ELSE IF IsStr(v) THEN [i \in 1..Len(StrChars(v[2])) |-> JStr(StrChars(v[2])[i])]
  ELSE LET ks == SelectSeq(KeyOrder, LAMBDA k : k \in DOMAIN v[2])
       IN [i \in 1..Len(ks) |-> JStr(ks[i])]
\* obj.append(value) in place of obj.extend(value)
ListExtendNested(l, v) == JList(Append(l[2], v))
ListExtend(l, v) == JList(l[2] \o IterItems(v))

\* obj[key] as an expression: does it evaluate, and to what
CanGet(obj, key) ==
  CASE is_dict(obj) -> Hashable(key) /\ DictHas(obj, key)
    [] IsList(obj) -> IsInt(key) /\ InRange(ListLen(obj), key[2])
    [] IsStr(obj) -> IsInt(key) /\ InRange(StrLen(obj[2]), key[2])
    [] OTHER -> FALSE
GetItem(obj, key) ==
  CASE is_dict(obj) -> DictGet(obj, key)
    [] IsList(obj) -> ListGet(obj, key[2])
    [] OTHER -> JStr(StrChars(obj[2])[Pos(StrLen(obj[2]), key[2])])

\* the container obj after the object it holds at key has become child
\* (a str holds no object: indexing it yields a new str)
WithChild(obj, key, child) ==
  CASE is_dict(obj) -> DictSet(obj, key, child)
    [] IsList(obj) -> ListSet(obj, key[2], child)
    [] OTHER -> obj

\* ------------------------------------------------------------------------
\* Updatable
\* ------------------------------------------------------------------------
\* Updatable.clean_key
clean_key(key) ==
  IF IsStr(key) /\ StrLen(key[2]) <= 16
  THEN JStr(ReplaceHyphens(key[2]))
  ELSE key

\* clean_key on the name a dict holds a key under (int keys are unchanged)
CleanName(x) ==
  IF x \in {"#" \o ToString(n) : n \in -3..3} \cup {"#None"}
  THEN x
  ELSE clean_key(JStr(x))[2]

\* a clean_keys that does not go into lists
RECURSIVE clean_keys_flat(_)
clean_keys_flat(data) ==
  IF is_dict(data)
  THEN LET names == {CleanName(x) : x \in DOMAIN data[2]}
           src(n) == LET c == {x \in DOMAIN data[2] : CleanName(x) = n}
                     IN IF n \in c /\ Cardinality(c) > 1
                        THEN CHOOSE x \in c : x # n
                        ELSE CHOOSE x \in c : TRUE
       IN JDict([n \in names |-> clean_keys_flat(data[2][src(n)])])
  ELSE data

\* Updatable.clean_keys
RECURSIVE clean_keys(_)
clean_keys(data) ==
  IF IsList(data)
  THEN JList([i \in 1..Len(data[2]) |-> clean_keys(data[2][i])])
  ELSE IF is_dict(data)
  THEN LET names == {CleanName(x) : x \in DOMAIN data[2]}
           \* a later item overwrites an earlier one of the same clean name
           src(n) == LET c == {x \in DOMAIN data[2] : CleanName(x) = n}
                     IN IF n \in c /\ Cardinality(c) > 1
                        THEN CHOOSE x \in c : x # n
                        ELSE CHOOSE x \in c : TRUE
       IN JDict([n \in names |-> clean_keys(data[2][src(n)])])
  ELSE data

\* Updatable.__init__(data, compat_mode)
Updatable(data, compat_mode, now) ==
  [data |-> IF compat_mode THEN clean_keys(data) ELSE data,
   compat_mode |-> compat_mode,
   last_update |-> now]

\* the last key and the value of an update, applied to the container obj
\* (updatable.py lines 152-164); a str key compared with len(obj) raises
FinalStep(obj, key, value) ==
  LET is_array == IsList(obj)
      ok(o) == [obj |-> o, raised |-> FALSE]
      raise == [obj |-> obj, raised |-> TRUE]
  IN IF is_array /\ key = JInt(-1)
     THEN ok(ListAppend(obj, value))
     ELSE IF is_array /\ key = JInt(-2)
     THEN (IF Iterable(value) THEN ok(ListExtend(obj, value)) ELSE raise)
     ELSE IF is_array /\ ~IsInt(key)
     THEN raise
     ELSE IF is_array /\ key[2] >= ListLen(obj)
     THEN ok(ListAppend(obj, value))
     ELSE IF is_array /\ IsNull(value)
     THEN (IF InRange(ListLen(obj), key[2])
           THEN ok(ListPop(obj, key[2])) ELSE raise)
     ELSE IF IsNull(value)
     THEN (IF is_dict(obj) /\ Hashable(key) /\ DictHas(obj, key)
           THEN ok(DictDel(obj, key)) ELSE raise)
     ELSE IF is_dict(obj)
     THEN (IF Hashable(key) THEN ok(DictSet(obj, key, value)) ELSE raise)
     ELSE IF is_array
     THEN (IF InRange(ListLen(obj), key[2])
           THEN ok(ListSet(obj, key[2], value)) ELSE raise)
     ELSE raise

\* a traversal that creates a dict at every missing position, whatever the
\* next key is
RECURSIVE TraverseMaps(_, _, _, _)
TraverseMaps(obj, update, i, compat_mode) ==
  IF i <= Len(update) - 2
  THEN LET key0 == IF compat_mode THEN clean_key(update[i]) ELSE update[i]
           unhashable == is_dict(obj) /\ ~Hashable(key0)
           missing == is_dict(obj) /\ Hashable(key0) /\ ~DictHas(obj, key0)
           at_end == IsList(obj) /\ IsInt(key0)
                       /\ (key0[2] = -1 \/ key0[2] = ListLen(obj))
           key == IF at_end THEN JInt(ListLen(obj)) ELSE key0
           obj1 == IF missing THEN DictSet(obj, key0, EmptyDict)
                   ELSE IF at_end THEN ListAppend(obj, EmptyDict)
                   ELSE obj
       IN IF unhashable \/ ~CanGet(obj1, key)
          THEN [obj |-> obj1, raised |-> TRUE]
          ELSE LET r == TraverseMaps(GetItem(obj1, key), update, i + 1,
                                     compat_mode)
               IN [obj |-> WithChild(obj1, key, r.obj), raised |-> r.raised]
  ELSE LET key == IF compat_mode THEN clean_key(update[i]) ELSE update[i]
           value0 == update[i + 1]
           value == IF compat_mode /\ ~IsNull(value0)
                    THEN clean_keys(value0) ELSE value0
       IN FinalStep(obj, key, value)

\* do_update from the container obj on, at element i of the update: the
\* traversal loop and then the last key and the value.  The result is the
\* container as the call leaves it and whether the call raised.
RECURSIVE Traverse(_, _, _, _)
Traverse(obj, update, i, compat_mode) ==
  IF i <= Len(update) - 2
  THEN LET key0 == IF compat_mode THEN clean_key(update[i]) ELSE update[i]
           next_key_is_int == IsInt(update[i + 1])
           created == IF next_key_is_int THEN EmptyList ELSE EmptyDict
           unhashable == is_dict(obj) /\ ~Hashable(key0)
           missing == is_dict(obj) /\ Hashable(key0) /\ ~DictHas(obj, key0)
           at_end == IsList(obj) /\ IsInt(key0)
                       /\ (key0[2] = -1 \/ key0[2] = ListLen(obj))
           key == IF at_end THEN JInt(ListLen(obj)) ELSE key0
           obj1 == IF missing THEN DictSet(obj, key0, created)
                   ELSE IF at_end THEN ListAppend(obj, created)
                   ELSE obj
       IN IF unhashable \/ ~CanGet(obj1, key)
          THEN [obj |-> obj1, raised |-> TRUE]
          ELSE LET r == Traverse(GetItem(obj1, key), update, i + 1, compat_mode)
               IN [obj |-> WithChild(obj1, key, r.obj), raised |-> r.raised]
  ELSE LET key == IF compat_mode THEN clean_key(update[i]) ELSE update[i]
           value0 == update[i + 1]
           value == IF compat_mode /\ ~IsNull(value0)
                    THEN clean_keys(value0) ELSE value0
       IN FinalStep(obj, key, value)

\* do_update that keeps the time of the update as an item of the dict
\* (self["_last_update"]) instead of as an attribute
do_update_stamped(self, update, now) ==
  IF ~IsList(update)
  THEN [self |-> self, raised |-> FALSE]
  ELSE IF Len(update[2]) < 2
  THEN [self |-> [self EXCEPT !.last_update = now], raised |-> TRUE]
  ELSE LET r == Traverse(self.data, update[2], 1, self.compat_mode)
       IN [self |-> [self EXCEPT
                       !.data = DictSet(r.obj, JStr("_last_update"),
                                        JInt(now)),
                       !.last_update = now],
           raised |-> r.raised]

\* do_update without the isinstance check of lines 110-111: a str is
\* indexed like a list of its characters, a dict or a number raises
do_update_unchecked(self, update, now) ==
  LET u == IF IsStr(update) THEN IterItems(update)
           ELSE IF IsList(update) THEN update[2] ELSE <<>>
  IN IF Len(u) < 2
     THEN [self |-> [self EXCEPT !.last_update = now], raised |-> TRUE]
     ELSE LET r == Traverse(self.data, u, 1, self.compat_mode)
          IN [self |-> [self EXCEPT !.data = r.obj, !.last_update = now],
              raised |-> r.raised]

\* Updatable.do_update(update), called when the clock reads now: the object
\* afterwards and whether the call raised
do_update(self, update, now) ==
  IF ~IsList(update)
  THEN [self |-> self, raised |-> FALSE]
  ELSE IF Len(update[2]) < 2
  THEN [self |-> [self EXCEPT !.last_update = now], raised |-> TRUE]
  ELSE LET r == Traverse(self.data, update[2], 1, self.compat_mode)
       IN [self |-> [self EXCEPT !.data = r.obj, !.last_update = now],
           raised |-> r.raised]

\* ------------------------------------------------------------------------
\* Frames on the wire (JSON texts) and json.loads
\* ------------------------------------------------------------------------
MsgPing == "\"ping\""
MsgAppend == "[\"b\",-1,4]"
MsgExtend == "[\"b\",-2,[8,9]]"
MsgBeyond == "[\"b\",5,4]"
MsgPop == "[\"b\",1,null]"
MsgReplace == "[\"b\",0,6]"
MsgSet == "[\"a\",\"b\",5]"
MsgDelete == "[\"a\",\"b\",null]"
MsgRootSet == "[\"c\",7]"
MsgCreate == "[\"c\",\"a\",0,\"b\",1]"
MsgDeleteAbsent == "[\"c\",\"a\",null]"
MsgStrIndex == "[\"b\",\"a\",1]"
MsgIntKey == "[\"a\",0,5]"
MsgArity == "[\"a\"]"
MsgExtendInt == "[\"b\",-2,5]"
MsgHyphen == "[\"a-b\",-1,{\"a-b\":2}]"
MsgDict == "{\"c\":3}"
MsgNumber == "5"
MsgGarbage == "not json"
SnapNew == "{\"info\":{\"version\":\"8.4\"},\"a\":{\"b\":1,\"c\":2},\"b\":[1,2,3]}"
SnapOld == "{\"info\":{\"version\":\"8.1\"},\"a-b\":[{\"a-b\":1}]}"
SnapNoInfo == "{\"b\":[1]}"
SnapBadVersion == "{\"info\":{\"version\":\"x\"}}"
SnapBadInfo == "{\"info\":[1]}"
SnapEmpty == "{}"
SnapGroups ==
  "{\"info\":{\"version\":\"8.4\"},\"groups\":{\"\":{},\"gpu\":{},\"/gpu\":{}}}"
SnapSlash == "{\"info\":{\"version\":\"8.4\"},\"groups\":{\"\":{},\"/gpu\":{}}}"
MsgGroupAdd == "[\"groups\",\"cpu\",{}]"
MsgNest == "[\"b\",-1,\"x\",1]"
MsgPast == "[\"b\",5,\"x\",1]"
MsgLong ==
  "[\"this-key-is-too-long\",\"a-b\",{\"this-key-is-too-long\":{\"a-b\":1}}]"
MsgRootInt == "[0,5]"
SnapEdge == "{\"info\":{\"version\":\"8.3\"},\"a-b\":{\"a-b\":1}}"
SnapLong ==
  "{\"info\":{\"version\":\"8.1\"},\"this-key-is-too-long\":{\"a-b\":1},\"b\":[1]}"

Decoded(v) == [ok |-> TRUE, value |-> v]
\* json.loads(message): the value, or ok = FALSE when it raises
json_loads(message) ==
  CASE message = MsgPing -> Decoded(JStr("ping"))
    [] message = MsgAppend ->
         Decoded(JList(<<JStr("b"), JInt(-1), JInt(4)>>))
    [] message = MsgExtend ->
         Decoded(JList(<<JStr("b"), JInt(-2), JList(<<JInt(8), JInt(9)>>)>>))
    [] message = MsgBeyond ->
         Decoded(JList(<<JStr("b"), JInt(5), JInt(4)>>))
    [] message = MsgPop ->
         Decoded(JList(<<JStr("b"), JInt(1), JNull>>))
    [] message = MsgReplace ->
         Decoded(JList(<<JStr("b"), JInt(0), JInt(6)>>))
    [] message = MsgSet ->
         Decoded(JList(<<JStr("a"), JStr("b"), JInt(5)>>))
    [] message = MsgDelete ->
         Decoded(JList(<<JStr("a"), JStr("b"), JNull>>))
    [] message = MsgRootSet ->
         Decoded(JList(<<JStr("c"), JInt(7)>>))
    [] message = MsgCreate ->
         Decoded(JList(<<JStr("c"), JStr("a"), JInt(0), JStr("b"), JInt(1)>>))
    [] message = MsgDeleteAbsent ->
         Decoded(JList(<<JStr("c"), JStr("a"), JNull>>))
    [] message = MsgStrIndex ->
         Decoded(JList(<<JStr("b"), JStr("a"), JInt(1)>>))
    [] message = MsgIntKey ->
         Decoded(JList(<<JStr("a"), JInt(0), JInt(5)>>))
    [] message = MsgArity ->
         Decoded(JList(<<JStr("a")>>))
    [] message = MsgExtendInt ->
         Decoded(JList(<<JStr("b"), JInt(-2), JInt(5)>>))
    [] message = MsgHyphen ->
         Decoded(JList(<<JStr("a-b"), JInt(-1), JDict("a-b" :> JInt(2))>>))
    [] message = MsgDict ->
         Decoded(JDict("c" :> JInt(3)))
    [] message = MsgNumber ->
         Decoded(JInt(5))
    [] message = SnapNew ->
         Decoded(JDict(("info" :> JDict("version" :> JStr("8.4")))
                       @@ ("a" :> JDict(("b" :> JInt(1)) @@ ("c" :> JInt(2))))
                       @@ ("b" :> JList(<<JInt(1), JInt(2), JInt(3)>>))))
    [] message = SnapOld ->
         Decoded(JDict(("info" :> JDict("version" :> JStr("8.1")))
                       @@ ("a-b" :> JList(<<JDict("a-b" :> JInt(1))>>))))
    [] message = SnapNoInfo ->
         Decoded(JDict("b" :> JList(<<JInt(1)>>)))
    [] message = SnapBadVersion ->
         Decoded(JDict("info" :> JDict("version" :> JStr("x"))))
    [] message = SnapBadInfo ->
         Decoded(JDict("info" :> JList(<<JInt(1)>>)))
    [] message = SnapEmpty -> Decoded(EmptyDict)
    [] message = SnapGroups ->
         Decoded(JDict(("info" :> JDict("version" :> JStr("8.4")))
                       @@ ("groups" :> JDict(("" :> EmptyDict)
                                             @@ ("gpu" :> EmptyDict)
                                             @@ ("/gpu" :> EmptyDict)))))
    [] message = SnapSlash ->
         Decoded(JDict(("info" :> JDict("version" :> JStr("8.4")))
                       @@ ("groups" :> JDict(("" :> EmptyDict)
                                             @@ ("/gpu" :> EmptyDict)))))
    [] message = MsgGroupAdd ->
         Decoded(JList(<<JStr("groups"), JStr("cpu"), EmptyDict>>))
    [] message = MsgNest ->
         Decoded(JList(<<JStr("b"), JInt(-1), JStr("x"), JInt(1)>>))
    [] message = MsgPast ->
         Decoded(JList(<<JStr("b"), JInt(5), JStr("x"), JInt(1)>>))
    [] message = MsgLong ->
         Decoded(JList(<<JStr("this-key-is-too-long"), JStr("a-b"),
                         JDict("this-key-is-too-long"
                                 :> JDict("a-b" :> JInt(1)))>>))
    [] message = MsgRootInt ->
         Decoded(JList(<<JInt(0), JInt(5)>>))
    [] message = SnapEdge ->
         Decoded(JDict(("info" :> JDict("version" :> JStr("8.3")))
                       @@ ("a-b" :> JDict("a-b" :> JInt(1)))))
    [] message = SnapLong ->
         Decoded(JDict(("info" :> JDict("version" :> JStr("8.1")))
                       @@ ("this-key-is-too-long"
                             :> JDict("a-b" :> JInt(1)))
                       @@ ("b" :> JList(<<JInt(1)>>))))
    [] OTHER -> [ok |-> FALSE, value |-> JNull]

\* the first frame a peer may send, and the frames it may send after it
FirstFrames ==
  {SnapNew, SnapOld, SnapNoInfo, SnapBadVersion, SnapBadInfo, MsgAppend,
   MsgGarbage}
Frames ==
  {MsgPing, MsgAppend, MsgDeleteAbsent, MsgArity, MsgGarbage}

\* tuple(map(int, v.split("."))); <<>> stands for the ValueError of int()
VersionTuple(v) ==
  CASE v = "8.4" -> <<8, 4>>
    [] v = "8.1" -> <<8, 1>>
    [] v = "8.3" -> <<8, 3>>
    [] v = "0" -> <<0>>
    [] OTHER -> <<>>

\* a < b on tuples of ints
TupleLess(a, b) ==
  LET n == IF Len(a) < Len(b) THEN Len(a) ELSE Len(b)
      diff == {i \in 1..n : a[i] # b[i]}
  IN IF diff = {}
     THEN Len(a) < Len(b)
     ELSE LET i == CHOOSE j \in diff : \A h \in diff : j <= h
          IN a[i] < b[i]

\* lines 175-178 of connect(): the snapshot frame r parsed; ok = FALSE when
\* json.loads, .get, .split or int raises
ParseSnapshot(r) ==
  LET d == json_loads(r)
      snapshot == d.value
      info == IF DictHas(snapshot, JStr("info"))
              THEN DictGet(snapshot, JStr("info")) ELSE EmptyDict
      v == IF DictHas(info, JStr("version"))
           THEN DictGet(info, JStr("version")) ELSE JStr("0")
      failed == [ok |-> FALSE, snapshot |-> JNull, version |-> <<>>,
                 old |-> FALSE]
  IN IF ~d.ok \/ ~is_dict(snapshot) THEN failed
     ELSE IF ~is_dict(info) THEN failed
     ELSE IF ~IsStr(v) \/ VersionTuple(v[2]) = <<>> THEN failed
     ELSE [ok |-> TRUE, snapshot |-> snapshot,
           version |-> VersionTuple(v[2]),
           old |-> TupleLess(VersionTuple(v[2]), <<8, 3>>)]

\* _process_message that merges a dict frame into the document
\* (self.data.update(data)) instead of ignoring it
RouteFrameMerging(self_data, should_process, message, now) ==
  LET d == json_loads(message)
  IN IF ~d.ok
     THEN [data |-> self_data, decoded |-> FALSE, logged |-> TRUE]
     ELSE IF should_process /\ (IsList(d.value) \/ IsStr(d.value))
     THEN LET r == do_update(self_data, d.value, now)
          IN [data |-> r.self, decoded |-> TRUE, logged |-> r.raised]
     ELSE IF should_process /\ is_dict(d.value)
     THEN [data |-> [self_data EXCEPT
                       !.data = JDict(d.value[2] @@ self_data.data[2])],
           decoded |-> TRUE, logged |-> FALSE]
     ELSE [data |-> self_data, decoded |-> TRUE, logged |-> FALSE]

\* lines 95-109 of _process_message: the frame decoded and, when state is
\* tracked and the value is a list or a str, passed to do_update, whose
\* exception is caught and logged
RouteFrame(self_data, should_process, message, now) ==
  LET d == json_loads(message)
  IN IF ~d.ok
     THEN [data |-> self_data, decoded |-> FALSE, logged |-> TRUE]
     ELSE IF should_process /\ (IsList(d.value) \/ IsStr(d.value))
     THEN LET r == do_update(self_data, d.value, now)
          IN [data |-> r.self, decoded |-> TRUE, logged |-> r.raised]
     ELSE [data |-> self_data, decoded |-> TRUE, logged |-> FALSE]

\* ------------------------------------------------------------------------
\* str operations, positions counted from 1
\* ------------------------------------------------------------------------
\* s.find(c) + 1 for a character c: the first position of c in s, 0 when
\* c is not in s
Find(s, c) ==
  LET at == {i \in 1..Len(s) : SubSeq(s, i, i) = c}
  IN IF at = {} THEN 0 ELSE CHOOSE i \in at : \A j \in at : i <= j
\* c in s
Contains(s, c) == Find(s, c) > 0
\* s.startswith(t), s.endswith(t)
StartsWith(s, t) == Len(s) >= Len(t) /\ SubSeq(s, 1, Len(t)) = t
EndsWith(s, t) ==
  Len(s) >= Len(t) /\ SubSeq(s, Len(s) - Len(t) + 1, Len(s)) = t
\* s.strip(), for the whitespace of the model (the space)
Strip(s) ==
  LET solid == {i \in 1..Len(s) : SubSeq(s, i, i) # " "}
  IN IF solid = {} THEN ""
     ELSE SubSeq(s, CHOOSE i \in solid : \A j \in solid : i <= j,
                    CHOOSE i \in solid : \A j \in solid : i >= j)
\* s.lower() for ASCII letters
UpperCase == "ABCDEFGHIJKLMNOPQRSTUVWXYZ"
LowerCase == "abcdefghijklmnopqrstuvwxyz"
RECURSIVE Lower(_)
Lower(s) ==
  IF s = "" THEN ""
  ELSE LET c == SubSeq(s, 1, 1)
           u == Find(UpperCase, c)
       IN (IF u = 0 THEN c ELSE SubSeq(LowerCase, u, u))
            \o Lower(SubSeq(s, 2, Len(s)))
\* s.isdigit() and int(s) for ASCII digits
Digits == "0123456789"
IsDigits(s) ==
  Len(s) > 0 /\ \A i \in 1..Len(s) : Contains(Digits, SubSeq(s, i, i))
RECURSIVE ToInt(_)
ToInt(s) ==
  IF s = "" THEN 0
  ELSE 10 * ToInt(SubSeq(s, 1, Len(s) - 1))
         + (Find(Digits, SubSeq(s, Len(s), Len(s))) - 1)

\* ------------------------------------------------------------------------
\* urllib.parse.urlparse("ws://" + netloc) for a netloc without "/", "?",
\* "#", "@" and "[": hostname is None (JNull) for an empty host; port is
\* None without a port and raises ValueError for a port that is not a
\* number of 0..65535
\* ------------------------------------------------------------------------
UrlHostname(netloc) ==
  LET i == Find(netloc, ":")
      h == IF i = 0 THEN netloc ELSE SubSeq(netloc, 1, i - 1)
  IN IF h = "" THEN JNull ELSE JStr(Lower(h))
UrlPort(netloc) ==
  LET i == Find(netloc, ":")
      port == IF i = 0 THEN "" ELSE SubSeq(netloc, i + 1, Len(netloc))
  IN IF port = "" THEN [raised |-> "", value |-> JNull]
     ELSE IF IsDigits(port) /\ Len(port) <= 5 /\ ToInt(port) <= 65535
     THEN [raised |-> "", value |-> JInt(ToInt(port))]
     ELSE [raised |-> "ValueError", value |-> JNull]
\* port or 7396
PortOr(port, default) ==
  IF IsNull(port) \/ port[2] = 0 THEN default ELSE port[2]

\* ------------------------------------------------------------------------
\* lufah.util: the group a command is addressed to
\* ------------------------------------------------------------------------
\* s.startswith("/")
StartsWithSlash(s) == Len(s) > 0 /\ SubSeq(s, 1, 1) = "/"

\* what a function returned, or the exception it raised
Returned(v) == [raised |-> "", value |-> v]
Raised(e) == [raised |-> e, value |-> JNull]

\* lines 198-202 of munged_group_name: the names of the groups of the
\* snapshot, the keys of snapshot["groups"], or when there are none the
\* peers whose name begins with "/" (as a set: the code tests the list for
\* emptiness and membership only)
GroupListing(snapshot) ==
  LET keys == IF DictHas(snapshot, JStr("groups"))
              THEN DOMAIN DictGet(snapshot, JStr("groups"))[2] ELSE {}
      peers == IF DictHas(snapshot, JStr("peers"))
               THEN DictGet(snapshot, JStr("peers"))[2] ELSE <<>>
  IN IF keys # {} THEN keys
     ELSE {peers[i][2] : i \in {j \in 1..Len(peers) :
                                  StartsWithSlash(peers[j][2])}}

\* munged_group_name that prefers the bare name when both exist
munged_group_name_guessing(g, snapshot) ==
  IF IsNull(g) THEN Returned(JNull)
  ELSE IF IsNull(snapshot) THEN Raised("Exception: No client data")
  ELSE LET listing == GroupListing(snapshot)
           group0 == "/" \o g[2]
           name == IF Len(g[2]) > 0 /\ group0 \in listing
                                    /\ g[2] \notin listing
                   THEN group0 ELSE g[2]
       IN IF name \notin listing
          THEN Raised("FahClientGroupDoesNotExist")
          ELSE Returned(JStr(name))

\* munged_group_name that tries the "/"-prefixed name also for ""
munged_group_name_conflating(g, snapshot) ==
  IF IsNull(g) THEN Returned(JNull)
  ELSE IF IsNull(snapshot) THEN Raised("Exception: No client data")
  ELSE LET listing == GroupListing(snapshot)
           group0 == "/" \o g[2]
           name == IF group0 \in listing /\ g[2] \notin listing
                   THEN group0 ELSE g[2]
       IN IF group0 \in listing /\ g[2] \in listing
          THEN Raised("Exception: Ambiguous group name")
          ELSE IF name \notin listing
          THEN Raised("FahClientGroupDoesNotExist")
          ELSE Returned(JStr(name))

\* munged_group_name(group, snapshot): group is None or a str, snapshot is
\* None or a dict
munged_group_name(g, snapshot) ==
  IF IsNull(g) THEN Returned(JNull)
  ELSE IF IsNull(snapshot) THEN Raised("Exception: No client data")
  ELSE LET listing == GroupListing(snapshot)
           group0 == "/" \o g[2]
           name == IF Len(g[2]) > 0 /\ group0 \in listing
                                    /\ g[2] \notin listing
                   THEN group0 ELSE g[2]
       IN IF Len(g[2]) > 0 /\ group0 \in listing /\ g[2] \in listing
          THEN Raised("Exception: Ambiguous group name")
          ELSE IF name \notin listing
          THEN Raised("FahClientGroupDoesNotExist")
          ELSE Returned(JStr(name))

\* ------------------------------------------------------------------------
\* lufah.validate.address and lufah.util.uri_and_group_for_peer: the peer
\* string [host][:port][/group] of a Session
\* ------------------------------------------------------------------------
\* split_address_and_group(peer) for a str: the text before the first "/",
\* stripped, and the text from the first "/" on (None without a "/")
split_address_and_group(peer) ==
  LET i == Find(peer, "/")
  IN IF i = 0 THEN <<Strip(peer), JNull>>
     ELSE <<Strip(SubSeq(peer, 1, i - 1)), JStr(SubSeq(peer, i, Len(peer)))>>

\* validate.address(peer, single=True)
address(peer) ==
  IF IsNull(peer) THEN Returned(JStr("localhost:7396"))
  ELSE
    LET sp == split_address_and_group(peer[2])
        suffix == IF IsNull(sp[2]) THEN "" ELSE sp[2][2]
    IN IF sp[1] \in {"", ".", "localhost", "localhost:7396"}
       THEN Returned(JStr("localhost:7396" \o suffix))
       ELSE IF Contains(sp[1], ",")
       THEN Raised("Exception: Cannot have multiple hosts")
       ELSE
         LET netloc == IF StartsWith(sp[1], ":")
                       THEN "localhost" \o sp[1] ELSE sp[1]
             hostname == UrlHostname(netloc)
             host0 == IF hostname \in {JNull, JStr(""), JStr(".")}
                      THEN "localhost" ELSE hostname[2]
             port == UrlPort(netloc)
             host1 == IF EndsWith(host0, ".")
                      THEN SubSeq(host0, 1, Len(host0) - 1) ELSE host0
             host == IF host1 # "localhost" /\ ~Contains(host1, ".")
                     THEN host1 \o ".local" ELSE host1
         IN IF port.raised # "" THEN Raised(port.raised)
            ELSE Returned(JStr(host \o ":" \o ToString(PortOr(port.value, 7396))
                                    \o suffix))

\* re.match(r"^\/?[\w.-]*$", group), for ASCII
WordChars == LowerCase \o UpperCase \o Digits \o "_"
LegacyGroupName(g) ==
  LET rest == IF StartsWith(g, "/") THEN SubSeq(g, 2, Len(g)) ELSE g
  IN \A i \in 1..Len(rest) :
       Contains(WordChars \o ".-", SubSeq(rest, i, i))

\* uri_and_group_for_peer that strips every leading "/" of the group
uri_and_group_for_peer_lstrip(peer) ==
  IF peer \in {JNull, JStr("")} THEN Returned(<<JNull, JNull>>)
  ELSE
    LET sp == split_address_and_group(peer[2])
        hostname == UrlHostname(sp[1])
        port == UrlPort(sp[1])
        host0 == Strip(IF IsNull(hostname) THEN "localhost" ELSE hostname[2])
        host == IF host0 \in {"", ".", "localhost", "localhost.", "127.0.0.1"}
                THEN "localhost" ELSE host0
        uri == "ws://" \o host \o ":" \o ToString(PortOr(port.value, 7396))
                 \o "/api/websocket"
        RECURSIVE LStrip(_)
        LStrip(g) == IF StartsWith(g, "/") THEN LStrip(SubSeq(g, 2, Len(g)))
                     ELSE g
        g == IF IsNull(sp[2]) THEN JNull ELSE JStr(LStrip(sp[2][2]))
    IN IF port.raised # "" THEN Raised(port.raised)
       ELSE IF ~IsNull(g) /\ g[2] # "" /\ LegacyGroupName(g[2])
       THEN Returned(<<JStr(uri \o "/" \o g[2]), g>>)
       ELSE Returned(<<JStr(uri), g>>)

\* uri_and_group_for_peer(peer): the uri, and the group (None, or a str)
uri_and_group_for_peer(peer) ==
  IF peer \in {JNull, JStr("")} THEN Returned(<<JNull, JNull>>)
  ELSE
    LET sp == split_address_and_group(peer[2])
        hostname == UrlHostname(sp[1])
        port == UrlPort(sp[1])
        host0 == Strip(IF IsNull(hostname) THEN "localhost" ELSE hostname[2])
        host == IF host0 \in {"", ".", "localhost", "localhost.", "127.0.0.1"}
                THEN "localhost" ELSE host0
        uri == "ws://" \o host \o ":" \o ToString(PortOr(port.value, 7396))
                 \o "/api/websocket"
        g == IF ~IsNull(sp[2]) /\ sp[2][2] # "" /\ StartsWith(sp[2][2], "/")
             THEN JStr(SubSeq(sp[2][2], 2, Len(sp[2][2]))) ELSE sp[2]
    IN IF port.raised # "" THEN Raised(port.raised)
       ELSE IF ~IsNull(g) /\ g[2] # "" /\ LegacyGroupName(g[2])
       THEN Returned(<<JStr(uri \o (IF StartsWith(g[2], "/") THEN "" ELSE "/")
                                \o g[2]), g>>)
       ELSE Returned(<<JStr(uri), g>>)

\* lines 34 and 44 of FahClient.__init__: the peer validated and parsed
SessionPeer(peer) ==
  LET valid == address(peer)
  IN IF valid.raised # "" THEN valid
     ELSE uri_and_group_for_peer(valid.value)

\* ------------------------------------------------------------------------
\* lufah.util.ipv4_uri_for_uri: the host of the uri replaced by its IPv4
\* address.  `resolvable` is the set of names that getaddrinfo resolves
\* when it is asked; it raises socket.gaierror for any other name.
\* ------------------------------------------------------------------------
\* urlparse(uri) of a uri ws://netloc[path]
UrlNetloc(uri) ==
  LET rest == SubSeq(uri, 6, Len(uri))
      i == Find(rest, "/")
  IN IF i = 0 THEN rest ELSE SubSeq(rest, 1, i - 1)
UrlPath(uri) ==
  LET rest == SubSeq(uri, 6, Len(uri))
      i == Find(rest, "/")
  IN IF i = 0 THEN "" ELSE SubSeq(rest, i, Len(rest))

\* an IPv4 address in text: getaddrinfo returns it as it is
IsIpLiteral(host) ==
  /\ Len(host) > 0
  /\ \A i \in 1..Len(host) : Contains(Digits \o ".", SubSeq(host, i, i))
\* the names of the model, and the address each resolves to
DnsNames == <<"localhost", "host", "host.local", "a.b", "a.b.local">>
Resolves(host, resolvable) == IsIpLiteral(host) \/ host \in resolvable
\* resolve_ipv4(hostname) when it returns
resolve_ipv4(host) ==
  IF IsIpLiteral(host) THEN host
  ELSE "192.0.2." \o ToString(CHOOSE i \in 1..Len(DnsNames) : DnsNames[i] = host)

\* an ipv4_uri_for_uri whose second resolve_ipv4 is outside a try
ipv4_uri_for_uri_raising(uri, resolvable) ==
  IF uri \in {JNull, JStr("")}
  THEN Returned([uri |-> JNull, probes |-> <<>>])
  ELSE
    LET hostname == UrlHostname(UrlNetloc(uri[2]))
        port == PortOr(UrlPort(UrlNetloc(uri[2])).value, 7396)
        host0 == IF IsNull(hostname) THEN "localhost" ELSE hostname[2]
        host1 == IF EndsWith(host0, ".")
                 THEN SubSeq(host0, 1, Len(host0) - 1) ELSE host0
        host2 == SubSeq(host1, 1, Len(host1) - 6)
        retry == ~Resolves(host1, resolvable) /\ EndsWith(host1, ".local")
        host == IF Resolves(host1, resolvable) THEN resolve_ipv4(host1)
                ELSE IF retry /\ Resolves(host2, resolvable)
                THEN resolve_ipv4(host2)
                ELSE host1
    IN IF retry /\ ~Resolves(host2, resolvable)
       THEN Raised("socket.gaierror")
       ELSE Returned([uri |-> JStr("ws://" \o host \o ":" \o ToString(port)
                                           \o UrlPath(uri[2])),
                      probes |-> IF retry THEN <<host1, host2>>
                                 ELSE <<host1>>])

\* ipv4_uri_for_uri(uri): the uri returned, and the names resolve_ipv4 was
\* called with, in the order of the calls
ipv4_uri_for_uri(uri, resolvable) ==
  IF uri \in {JNull, JStr("")}
  THEN Returned([uri |-> JNull, probes |-> <<>>])
  ELSE
    LET hostname == UrlHostname(UrlNetloc(uri[2]))
        port == PortOr(UrlPort(UrlNetloc(uri[2])).value, 7396)
        host0 == IF IsNull(hostname) THEN "localhost" ELSE hostname[2]
        host1 == IF EndsWith(host0, ".")
                 THEN SubSeq(host0, 1, Len(host0) - 1) ELSE host0
        host2 == SubSeq(host1, 1, Len(host1) - 6)
        retry == ~Resolves(host1, resolvable) /\ EndsWith(host1, ".local")
        host == IF Resolves(host1, resolvable) THEN resolve_ipv4(host1)
                ELSE IF retry /\ Resolves(host2, resolvable)
                THEN resolve_ipv4(host2)
                ELSE host1
    IN Returned([uri |-> JStr("ws://" \o host \o ":" \o ToString(port)
                                      \o UrlPath(uri[2])),
                 probes |-> IF retry THEN <<host1, host2>> ELSE <<host1>>])

\* ------------------------------------------------------------------------
\* State
\* ------------------------------------------------------------------------
VARIABLES
  \* FahClient: self.ws ("None", or the transport's state), the state label,
  \* self.data, self._version, self._connected_uri, self._callbacks,
  \* self._should_process_updates
  ws, connection_state, data, version, connected_uri, callbacks,
  should_process_updates,
  \* the task calling the Session: where it is suspended, the call it made
  \* last and how that call ended, the number of calls made
  caller_pc, op, ncalls,
  \* the _receive_messages task: where it is suspended, and the index in
  \* self._callbacks of the observer it is suspended in
  loop_pc, cb_idx,
  \* the transport: frames received and not yet read, all frames the peer
  \* sent on the connection, and the number of frames read from it
  inbox, sent, nread,
  \* history: what the receive loop did, and the document as seeded by the
  \* handshake
  trace, snapshot0,
  \* replay of a tape of frames (SpecUpd): the frames fed so far; `state`
  \* fed by Updatable.do_update, `replay` a second, independent replay and
  \* the number of frames it has consumed; the last do_update call on
  \* `state`: the object before it, its argument, whether it raised
  tape, state, replay, nreplayed, pre, upd, raised,
  \* history: whether the caller has called close(); send(): the texts
  \* written to the transport, and the caller's message object (as it was
  \* passed, and as it is now)
  close_called, out, payload,
  \* self._group (None, or the group selected by the peer string), and the
  \* last call of a function of lufah.util or lufah.validate: its name, its
  \* arguments and what it returned or raised
  group, fcall,
  \* connect() called by several tasks on one Session: where each task's
  \* call is suspended
  conn_pc,
  \* the attribute client.should_process_updates, which commands set on
  \* the Session object ("unset" until one does)
  watch_attr

sess == <<ws, connection_state, data, version, connected_uri>>
conf == <<callbacks, should_process_updates>>
call == <<caller_pc, op, ncalls>>
loop == <<loop_pc, cb_idx>>
net == <<inbox, sent, nread>>
hist == <<trace, snapshot0>>
harness == <<tape, state, replay, nreplayed, pre, upd, raised>>
ext == <<group, fcall, conn_pc, watch_attr>>
aux == <<close_called, out, payload, ext>>
vars == <<sess, conf, call, loop, net, hist, harness, aux>>

\* number of registrations in self._callbacks
MaxCallbacks == 2
\* number of Session calls the caller makes
MaxCalls == 2

Clock == 1..MaxClock
\* datetime.datetime.now() as the Session reads it: later than the reading
\* the document was last stamped with
Later(u) == u.last_update + 1

\* observers: a printer returns, a faulty one raises, a sleeper awaits
\* something and returns, a closer awaits client.close() and returns
Observers == {"printer", "faulty", "sleeper", "closer"}
Suspends(o) == o \in {"sleeper", "closer"}
CallbackLists ==
  {<<>>, <<"faulty", "printer">>, <<"sleeper", "printer">>,
   <<"closer", "printer">>}

\* the tasks that call connect() on one Session
Tasks == {1, 2}

\* FahClient.is_connected
is_connected == ws = "OPEN"

\* a call of the caller: its name, its status ("running", "returned",
\* "raised") and where it ended ("already": line 138, "open": lines 163-173,
\* "handshake": lines 174-177)
Ended(name, status, at) ==
  [name |-> name, status |-> status, at |-> at]

\* no function called yet
NoCall == [fn |-> "none", args |-> <<>>, ret |-> JNull]

InitAux ==
  /\ close_called = FALSE /\ out = <<>>
  /\ payload = [given |-> JNull, now |-> JNull]
  /\ group = JNull
  /\ conn_pc = [t \in Tasks |-> "idle"]
  /\ watch_attr = "unset"

InitHarness ==
  /\ tape = <<>> /\ state = data /\ replay = data /\ nreplayed = 0
  /\ pre = data /\ upd = JNull /\ raised = FALSE

\* FahClient.__init__, and then the observers registered and state tracking
\* chosen as the commands do before they call connect()
Init ==
  /\ ws = "None"
  /\ connection_state = ""
  /\ data = Updatable(EmptyDict, FALSE, 0)
  /\ version = <<0, 0, 0>>
  /\ connected_uri = "None"
  /\ callbacks \in CallbackLists
  /\ should_process_updates \in BOOLEAN
  /\ caller_pc = "idle" /\ op = Ended("none", "returned", "none")
  /\ ncalls = 0
  /\ loop_pc = "none" /\ cb_idx = 0
  /\ inbox = <<>> /\ sent = <<>> /\ nread = 0
  /\ trace = <<>> /\ snapshot0 = data
  /\ InitHarness /\ InitAux /\ fcall = NoCall

\* ------------------------------------------------------------------------
\* connect()
\* ------------------------------------------------------------------------
\* connect() without the is_connected check of lines 137-138: on an open
\* transport it goes straight to the handshake read of line 174
ConnectCallUnchecked ==
  /\ caller_pc = "idle" /\ ncalls < MaxCalls
  /\ ncalls' = ncalls + 1
  /\ IF ws = "None"
     THEN /\ connection_state' = "Connecting.."
          /\ caller_pc' = "resolving"
          /\ op' = Ended("connect", "running", "none")
     ELSE IF ws = "OPEN"
     THEN /\ caller_pc' = "handshake"
          /\ op' = Ended("connect", "running", "none")
          /\ UNCHANGED connection_state
     ELSE /\ op' = Ended("connect", "raised", "handshake")
          /\ UNCHANGED <<caller_pc, connection_state>>
  /\ UNCHANGED <<ws, data, version, connected_uri, conf, loop, net, hist,
                 harness, aux>>

\* connect() up to its first suspension (lines 137-145; self._uri is never
\* None for a constructed Session).  On a transport that is not None and
\* not open, line 174 is reached at once and recv() raises ConnectionClosed.
ConnectCall ==
  /\ caller_pc = "idle" /\ ncalls < MaxCalls
  /\ ncalls' = ncalls + 1
  /\ IF is_connected
     THEN /\ op' = Ended("connect", "returned", "already")
          /\ UNCHANGED <<caller_pc, connection_state>>
     ELSE IF ws = "None"
     THEN /\ connection_state' = "Connecting.."
          /\ caller_pc' = "resolving"
          /\ op' = Ended("connect", "running", "none")
     ELSE /\ op' = Ended("connect", "raised", "handshake")
          /\ UNCHANGED <<caller_pc, connection_state>>
  /\ UNCHANGED <<ws, data, version, connected_uri, conf, loop, net, hist,
                 harness, aux>>

\* ipv4_uri_for_uri returned (lines 145-148)
ConnectResolved ==
  /\ caller_pc = "resolving"
  /\ connected_uri' = "None"
  /\ connection_state' = "Connecting..."
  /\ caller_pc' = "opening"
  /\ UNCHANGED <<ws, data, version, conf, op, ncalls, loop, net, hist,
                 harness, aux>>

\* the transport opened (lines 149-156); connect() goes on to recv()
ConnectOpened ==
  /\ caller_pc = "opening"
  /\ ws' = "OPEN"
  /\ connected_uri' = "uri"
  /\ connection_state' = "Connected"
  /\ caller_pc' = "handshake"
  /\ UNCHANGED <<data, version, conf, op, ncalls, loop, net, hist, harness, aux>>

\* opening the transport raised an Exception (lines 163-173)
ConnectOpenFailed ==
  /\ caller_pc = "opening"
  /\ \E e \in {"OSError", "InvalidURI", "Exception"} :
       /\ data' = Updatable(EmptyDict, FALSE, Later(data))
       /\ version' = <<0, 0, 0>>
       /\ connection_state' =
            CASE e = "OSError" -> "Unreachable"
              [] e = "InvalidURI" -> "Invalid address"
              [] OTHER -> "<class 'Exception'>"
  /\ op' = Ended("connect", "returned", "open")
  /\ caller_pc' = "idle"
  /\ UNCHANGED <<ws, connected_uri, conf, ncalls, loop, net, hist, harness, aux>>

\* the handshake read returned a frame (lines 174-184): an exception of
\* json.loads, .get, .split or int leaves connect(); otherwise the document
\* is seeded and the receive loop is started
ConnectSnapshot ==
  /\ caller_pc = "handshake" /\ ws = "OPEN" /\ inbox # <<>>
  /\ LET h == ParseSnapshot(Head(inbox))
     IN IF h.ok
        THEN /\ version' = h.version
             /\ data' = Updatable(h.snapshot, h.old, Later(data))
             /\ snapshot0' = data'
             /\ loop_pc' = "recv"
             /\ op' = Ended("connect", "returned", "none")
        ELSE /\ op' = Ended("connect", "raised", "handshake")
             /\ UNCHANGED <<version, data, snapshot0, loop_pc>>
  /\ inbox' = Tail(inbox)
  /\ nread' = nread + 1
  /\ caller_pc' = "idle"
  /\ UNCHANGED <<ws, connection_state, connected_uri, conf, ncalls, cb_idx,
                 sent, trace, harness, aux>>

\* the handshake read raised ConnectionClosed (line 174)
ConnectHandshakeClosed ==
  /\ caller_pc = "handshake" /\ ws # "OPEN"
  /\ op' = Ended("connect", "raised", "handshake")
  /\ caller_pc' = "idle"
  /\ UNCHANGED <<sess, conf, ncalls, loop, net, hist, harness, aux>>

\* ------------------------------------------------------------------------
\* close()
\* ------------------------------------------------------------------------
\* close() without the test of line 187: self.ws.close() on None raises
\* AttributeError
CloseCallStrict ==
  /\ caller_pc = "idle" /\ ncalls < MaxCalls
  /\ ncalls' = ncalls + 1
  /\ IF ws # "None"
     THEN /\ connection_state' = "Disconnecting"
          /\ ws' = IF ws = "OPEN" THEN "CLOSING" ELSE ws
          /\ caller_pc' = "closing"
          /\ op' = Ended("close", "running", "none")
     ELSE /\ connection_state' = "Disconnecting"
          /\ op' = Ended("close", "raised", "none")
          /\ UNCHANGED <<ws, caller_pc>>
  /\ close_called' = TRUE
  /\ UNCHANGED <<data, version, connected_uri, conf, loop, net, hist,
                 harness, out, payload, ext>>

\* close() up to await self.ws.close() (lines 187-189), or all of it when
\* there is no transport (line 191)
CloseCall ==
  /\ caller_pc = "idle" /\ ncalls < MaxCalls
  /\ ncalls' = ncalls + 1
  /\ IF ws # "None"
     THEN /\ connection_state' = "Disconnecting"
          /\ ws' = IF ws = "OPEN" THEN "CLOSING" ELSE ws
          /\ caller_pc' = "closing"
          /\ op' = Ended("close", "running", "none")
     ELSE /\ connection_state' = "Disconnected"
          /\ op' = Ended("close", "returned", "none")
          /\ UNCHANGED <<ws, caller_pc>>
  /\ close_called' = TRUE
  /\ UNCHANGED <<data, version, connected_uri, conf, loop, net, hist,
                 harness, out, payload, ext>>

\* a close() that discards the document
CloseDoneResetting ==
  /\ caller_pc = "closing"
  /\ ws' = "CLOSED"
  /\ connected_uri' = "None"
  /\ connection_state' = "Disconnected"
  /\ data' = Updatable(EmptyDict, FALSE, Later(data))
  /\ op' = Ended("close", "returned", "none")
  /\ caller_pc' = "idle"
  /\ UNCHANGED <<version, conf, ncalls, loop, net, hist, harness, aux>>

\* self.ws.close() returned (lines 190-191)
CloseDone ==
  /\ caller_pc = "closing"
  /\ ws' = "CLOSED"
  /\ connected_uri' = "None"
  /\ connection_state' = "Disconnected"
  /\ op' = Ended("close", "returned", "none")
  /\ caller_pc' = "idle"
  /\ UNCHANGED <<data, version, conf, ncalls, loop, net, hist, harness, aux>>

\* ------------------------------------------------------------------------
\* The peer
\* ------------------------------------------------------------------------
PeerSend ==
  /\ ws = "OPEN" /\ Len(sent) <= MaxFrames
  /\ \E m \in (IF sent = <<>> THEN FirstFrames ELSE Frames) :
       /\ inbox' = Append(inbox, m)
       /\ sent' = Append(sent, m)
  /\ UNCHANGED <<sess, conf, call, loop, nread, hist, harness, aux>>

PeerClose ==
  /\ ws = "OPEN"
  /\ ws' = "CLOSED"
  /\ UNCHANGED <<connection_state, data, version, connected_uri, conf, call,
                 loop, net, hist, harness, aux>>

\* ------------------------------------------------------------------------
\* _receive_messages and _process_message
\* ------------------------------------------------------------------------
\* the first observer at index i or later that suspends (0: none)
FirstSuspending(cbs, i) ==
  LET js == {j \in i..Len(cbs) : Suspends(cbs[j])}
  IN IF js = {} THEN 0 ELSE CHOOSE j \in js : \A h \in js : j <= h

\* what the for loop of lines 110-119 does from index i until observer j
\* suspends (j = 0: until the list ends), for frame k
RECURSIVE Invocations(_, _, _, _)
\* a for loop that an exception of an observer leaves (no try at line 111)
InvocationsAborting(cbs, i, j, k) ==
  IF i > Len(cbs) THEN <<>>
  ELSE IF i = j THEN <<<<"begin", k, cbs[i]>>>>
  ELSE IF cbs[i] = "faulty"
  THEN <<<<"begin", k, cbs[i]>>, <<"raise", k, cbs[i]>>>>
  ELSE <<<<"begin", k, cbs[i]>>, <<"end", k, cbs[i]>>>>
       \o Invocations(cbs, i + 1, j, k)
Invocations(cbs, i, j, k) ==
  IF i > Len(cbs) THEN <<>>
  ELSE IF i = j THEN <<<<"begin", k, cbs[i]>>>>
  ELSE <<<<"begin", k, cbs[i]>>,
         <<(IF cbs[i] = "faulty" THEN "raise" ELSE "end"), k, cbs[i]>>>>
       \o Invocations(cbs, i + 1, j, k)

\* observers started as tasks of their own (asyncio.ensure_future) instead
\* of awaited: the loop does not wait for an observer that suspends
RunObserversDetached(i, k, ws0, cs0, trace0) ==
  LET j == FirstSuspending(callbacks, i)
      closes == j # 0 /\ callbacks[j] = "closer"
  IN [ws |-> IF closes /\ ws0 = "OPEN" THEN "CLOSING" ELSE ws0,
      cs |-> IF closes THEN "Disconnecting" ELSE cs0,
      pc |-> "recv",
      idx |-> 0,
      trace |-> trace0 \o Invocations(callbacks, i, j, k)]

\* the loop task after it has run the observers from index i on, for frame
\* k, until one of them suspends; a closer suspends in close()
\* (lines 187-189)
RunObservers(i, k, ws0, cs0, trace0) ==
  LET j == FirstSuspending(callbacks, i)
      closes == j # 0 /\ callbacks[j] = "closer"
  IN [ws |-> IF closes /\ ws0 = "OPEN" THEN "CLOSING" ELSE ws0,
      cs |-> IF closes THEN "Disconnecting" ELSE cs0,
      pc |-> IF j = 0 THEN "recv" ELSE "in_callback",
      idx |-> j,
      trace |-> trace0 \o Invocations(callbacks, i, j, k)]

\* a receive loop in which an exception of do_update is not caught (no
\* try at line 105) and ends the loop (break at line 134)
LoopRecvFragile ==
  /\ loop_pc = "recv" /\ ws = "OPEN" /\ inbox # <<>>
  /\ LET now == Later(data) IN
       LET message == Head(inbox)
           r == RouteFrame(data, should_process_updates, message, now)
           after == RunObservers(1, nread, ws, connection_state,
                                 Append(trace, <<"route", nread, message>>))
       IN /\ data' = r.data
          /\ IF r.decoded /\ ~r.logged
             THEN /\ ws' = after.ws
                  /\ connection_state' = after.cs
                  /\ loop_pc' = after.pc
                  /\ cb_idx' = after.idx
                  /\ trace' = after.trace
             ELSE IF r.decoded
             THEN /\ loop_pc' = "done"
                  /\ trace' = Append(trace, <<"route", nread, message>>)
                  /\ UNCHANGED <<ws, connection_state, cb_idx>>
             ELSE /\ trace' = Append(trace, <<"undecodable", nread, message>>)
                  /\ UNCHANGED <<ws, connection_state, loop_pc, cb_idx>>
  /\ inbox' = Tail(inbox)
  /\ nread' = nread + 1
  /\ UNCHANGED <<version, connected_uri, conf, call, sent, snapshot0,
                 harness, aux>>

\* a receive loop that a frame which does not decode ends (json.loads
\* outside the try of line 95, and break at line 134)
LoopRecvStopping ==
  /\ loop_pc = "recv" /\ ws = "OPEN" /\ inbox # <<>>
  /\ LET now == Later(data) IN
       LET message == Head(inbox)
           r == RouteFrame(data, should_process_updates, message, now)
           after == RunObservers(1, nread, ws, connection_state,
                                 Append(trace, <<"route", nread, message>>))
       IN /\ data' = r.data
          /\ IF r.decoded
             THEN /\ ws' = after.ws
                  /\ connection_state' = after.cs
                  /\ loop_pc' = after.pc
                  /\ cb_idx' = after.idx
                  /\ trace' = after.trace
             ELSE /\ trace' = Append(trace, <<"undecodable", nread, message>>)
                  /\ loop_pc' = "done"
                  /\ UNCHANGED <<ws, connection_state, cb_idx>>
  /\ inbox' = Tail(inbox)
  /\ nread' = nread + 1
  /\ UNCHANGED <<version, connected_uri, conf, call, sent, snapshot0,
                 harness, aux>>

\* recv() returned a frame (line 124); _process_message runs until an
\* observer suspends or the frame is done (lines 94-119)
LoopRecv ==
  /\ loop_pc = "recv" /\ ws = "OPEN" /\ inbox # <<>>
  /\ LET now == Later(data) IN
       LET message == Head(inbox)
           r == RouteFrame(data, should_process_updates, message, now)
           after == RunObservers(1, nread, ws, connection_state,
                                 Append(trace, <<"route", nread, message>>))
       IN /\ data' = r.data
          /\ IF r.decoded
             THEN /\ ws' = after.ws
                  /\ connection_state' = after.cs
                  /\ loop_pc' = after.pc
                  /\ cb_idx' = after.idx
                  /\ trace' = after.trace
             ELSE /\ trace' = Append(trace, <<"undecodable", nread, message>>)
                  /\ UNCHANGED <<ws, connection_state, loop_pc, cb_idx>>
  /\ inbox' = Tail(inbox)
  /\ nread' = nread + 1
  /\ UNCHANGED <<version, connected_uri, conf, call, sent, snapshot0,
                 harness, aux>>

\* the observer the loop is suspended in resumes and returns; the loop goes
\* on with the observers after it
LoopResume ==
  /\ loop_pc = "in_callback"
  /\ LET o == callbacks[cb_idx]
         closed == o = "closer"
         after == RunObservers(cb_idx + 1, nread - 1,
                               IF closed THEN "CLOSED" ELSE ws,
                               IF closed THEN "Disconnected"
                               ELSE connection_state,
                               Append(trace, <<"end", nread - 1, o>>))
     IN /\ ws' = after.ws
        /\ connection_state' = after.cs
        /\ connected_uri' = IF closed THEN "None" ELSE connected_uri
        /\ loop_pc' = after.pc
        /\ cb_idx' = after.idx
        /\ trace' = after.trace
  /\ UNCHANGED <<data, version, conf, call, net, snapshot0, harness, aux>>

\* a receive loop that reconnects when recv() raises ConnectionClosed
LoopClosedReconnecting ==
  /\ loop_pc = "recv" /\ ws # "OPEN"
  /\ ws' = "OPEN"
  /\ connection_state' = "Connected"
  /\ trace' = Append(trace, <<"closed", nread, "">>)
  /\ UNCHANGED <<data, version, connected_uri, conf, call, loop, net,
                 snapshot0, harness, aux>>

\* recv() raised ConnectionClosed (lines 126-128): close() up to
\* await self.ws.close()
LoopClosed ==
  /\ loop_pc = "recv" /\ ws # "OPEN"
  /\ connection_state' = "Disconnecting"
  /\ loop_pc' = "closing"
  /\ trace' = Append(trace, <<"closed", nread, "">>)
  /\ UNCHANGED <<ws, data, version, connected_uri, conf, call, cb_idx, net,
                 snapshot0, harness, aux>>

\* a close() that leaves the state label as it is when self.ws.close()
\* has returned (no line 191)
LoopCloseDoneUnlabelled ==
  /\ loop_pc = "closing"
  /\ ws' = "CLOSED"
  /\ connected_uri' = "None"
  /\ loop_pc' = "done"
  /\ UNCHANGED <<connection_state, data, version, conf, call, cb_idx, net,
                 hist, harness, aux>>

\* self.ws.close() returned; close() ends and the loop breaks (line 129)
LoopCloseDone ==
  /\ loop_pc = "closing"
  /\ ws' = "CLOSED"
  /\ connected_uri' = "None"
  /\ connection_state' = "Disconnected"
  /\ loop_pc' = "done"
  /\ UNCHANGED <<data, version, conf, call, cb_idx, net, hist, harness, aux>>

Next ==
  \/ ConnectCall \/ ConnectResolved \/ ConnectOpened \/ ConnectOpenFailed
  \/ ConnectSnapshot \/ ConnectHandshakeClosed
  \/ CloseCall \/ CloseDone
  \/ PeerSend \/ PeerClose
  \/ LoopRecv \/ LoopResume \/ LoopClosed \/ LoopCloseDone

Spec == Init /\ [][Next]_vars

\* the event loop runs every task that is ready: the receive loop goes on
\* when its recv() has a frame or has raised, when the observer it awaits
\* returns, and when the self.ws.close() it awaits returns
LoopStep == LoopRecv \/ LoopResume \/ LoopClosed \/ LoopCloseDone
Fairness == WF_vars(LoopStep)

\* a peer that sends a snapshot or garbage first, and then instructions,
\* well-formed or not
PlainFirstFrames == {SnapNew, MsgGarbage}
PlainFrames == {MsgAppend, MsgArity}
PeerSendPlain ==
  /\ ws = "OPEN" /\ Len(sent) <= MaxFrames
  /\ \E m \in (IF sent = <<>> THEN PlainFirstFrames ELSE PlainFrames) :
       /\ inbox' = Append(inbox, m)
       /\ sent' = Append(sent, m)
  /\ UNCHANGED <<sess, conf, call, loop, nread, hist, harness, aux>>

NextLive ==
  \/ ConnectCall \/ ConnectResolved \/ ConnectOpened \/ ConnectOpenFailed
  \/ ConnectSnapshot \/ ConnectHandshakeClosed
  \/ CloseCall \/ CloseDone
  \/ PeerSendPlain \/ PeerClose
  \/ LoopRecv \/ LoopResume \/ LoopClosed \/ LoopCloseDone

SpecLive == Init /\ [][NextLive]_vars /\ Fairness

\* ------------------------------------------------------------------------
\* Cancellation (asyncio.CancelledError raised at a suspension point)
\* ------------------------------------------------------------------------
\* connect() is cancelled while it opens the transport (lines 157-162)
ConnectCancelled ==
  /\ caller_pc = "opening"
  /\ data' = Updatable(EmptyDict, FALSE, Later(data))
  /\ version' = <<0, 0, 0>>
  /\ connection_state' = "Disconnected"
  /\ op' = Ended("connect", "raised", "cancelled")
  /\ caller_pc' = "idle"
  /\ UNCHANGED <<ws, connected_uri, conf, ncalls, loop, net, hist, harness,
                 aux>>

\* connect() is cancelled in ipv4_uri_for_uri (line 145) or in the
\* handshake read (line 174), both outside the try statement
ConnectCancelledOutside ==
  /\ caller_pc \in {"resolving", "handshake"}
  /\ op' = Ended("connect", "raised", "cancelled")
  /\ caller_pc' = "idle"
  /\ UNCHANGED <<sess, conf, ncalls, loop, net, hist, harness, aux>>

\* the event of the trace for the observer the loop is suspended in, when
\* CancelledError is raised in it
ObserverCancelled ==
  IF loop_pc = "in_callback"
  THEN <<<<"raise", nread - 1, callbacks[cb_idx]>>>> ELSE <<>>

\* a receive loop that treats CancelledError as line 133 treats an
\* unexpected exception: logged, and the loop goes on
LoopCancelledSwallowed ==
  /\ loop_pc \in {"recv", "in_callback"}
  /\ loop_pc' = "recv"
  /\ cb_idx' = 0
  /\ trace' = trace \o ObserverCancelled \o <<<<"cancelled", nread, "">>>>
  /\ UNCHANGED <<sess, conf, call, net, snapshot0, harness, aux>>

\* the loop task is cancelled in recv() or in an observer it awaits
\* (lines 130-131): close() up to await self.ws.close()
LoopCancelled ==
  /\ loop_pc \in {"recv", "in_callback"}
  /\ connection_state' = "Disconnecting"
  /\ ws' = IF ws = "OPEN" THEN "CLOSING" ELSE ws
  /\ loop_pc' = "cancel_closing"
  /\ cb_idx' = 0
  /\ trace' = trace \o ObserverCancelled \o <<<<"cancelled", nread, "">>>>
  /\ UNCHANGED <<data, version, connected_uri, conf, call, net, snapshot0,
                 harness, aux>>

\* self.ws.close() returned; close() ends and CancelledError is raised
\* again (lines 131-132)
LoopCancelDone ==
  /\ loop_pc = "cancel_closing"
  /\ ws' = "CLOSED"
  /\ connected_uri' = "None"
  /\ connection_state' = "Disconnected"
  /\ loop_pc' = "cancelled"
  /\ UNCHANGED <<data, version, conf, call, cb_idx, net, hist, harness, aux>>

\* the loop task is cancelled in the close() of line 128: CancelledError
\* leaves the except clause and the task
LoopCloseCancelled ==
  /\ loop_pc = "closing"
  /\ loop_pc' = "cancelled"
  /\ trace' = Append(trace, <<"cancelled", nread, "">>)
  /\ UNCHANGED <<sess, conf, call, cb_idx, net, snapshot0, harness, aux>>

NextCancel ==
  \/ ConnectCall \/ ConnectResolved \/ ConnectOpened \/ ConnectOpenFailed
  \/ ConnectSnapshot \/ ConnectHandshakeClosed
  \/ CloseCall \/ CloseDone
  \/ PeerSendPlain \/ PeerClose
  \/ LoopRecv \/ LoopResume \/ LoopClosed \/ LoopCloseDone
  \/ ConnectCancelled \/ ConnectCancelledOutside
  \/ LoopCancelled \/ LoopCancelDone \/ LoopCloseCancelled

SpecCancel == Init /\ [][NextCancel]_vars

\* ------------------------------------------------------------------------
\* send()
\* ------------------------------------------------------------------------
\* the keys of outbound messages in the order they are inserted
\* (send_command lines 228-237, send line 204)
DumpKeyOrder == <<"state", "cmd", "group", "time">>

\* json.dumps(v): separators ", " and ": ", dict keys in insertion order
RECURSIVE DumpItems(_, _)
RECURSIVE json_dumps(_)
DumpItems(texts, i) ==
  IF i > Len(texts) THEN ""
  ELSE (IF i > 1 THEN ", " ELSE "") \o texts[i] \o DumpItems(texts, i + 1)
json_dumps(v) ==
  CASE IsNull(v) -> "null"
    [] IsInt(v) -> ToString(v[2])
    [] IsStr(v) -> "\"" \o v[2] \o "\""
    [] IsList(v) ->
         "[" \o DumpItems([i \in 1..Len(v[2]) |-> json_dumps(v[2][i])], 1)
             \o "]"
    [] is_dict(v) ->
         LET ks == SelectSeq(DumpKeyOrder, LAMBDA k : k \in DOMAIN v[2])
         IN "{" \o DumpItems([i \in 1..Len(ks) |->
                                "\"" \o ks[i] \o "\": "
                                     \o json_dumps(v[2][ks[i]])], 1)
                \o "}"

\* datetime.now(timezone.utc).replace(microsecond=0).isoformat(): the date
\* and time, and the offset; and t.replace("+00:00", "Z") (lines 202-204)
IsoFormat(now) == <<"1970-01-01T00:00:0" \o ToString(now), "+00:00">>
ZuluStamp(t) == t[1] \o (IF t[2] = "+00:00" THEN "Z" ELSE t[2])

\* the messages the caller passes to send()
PayCmd == JDict([cmd |-> JStr("pause")])
PayTimed == JDict([cmd |-> JStr("pause"), time |-> JStr("noon")])
Payloads ==
  {PayCmd, PayTimed, JStr("ping"), JStr(""), JList(<<JInt(1)>>), JInt(5)}

\* a send() that stamps the caller's dict itself (no copy at line 201)
SendMessageInPlace(message, now) ==
  IF is_dict(message)
  THEN LET msg == IF DictHas(message, JStr("time")) THEN message
                  ELSE DictSet(message, JStr("time"),
                               JStr(ZuluStamp(IsoFormat(now))))
       IN [object |-> msg, msg |-> msg, text |-> json_dumps(msg)]
  ELSE IF IsStr(message)
  THEN [object |-> message, msg |-> message, text |-> message[2]]
  ELSE IF IsList(message)
  THEN [object |-> message, msg |-> message, text |-> json_dumps(message)]
  ELSE [object |-> message, msg |-> message, text |-> ""]

\* lines 197-210 of send(), the clock reading now: the caller's object
\* after them, the object serialized, and msgstr ("" for None)
SendMessage(message, now) ==
  IF is_dict(message)
  THEN LET msg == IF DictHas(message, JStr("time")) THEN message
                  ELSE DictSet(message, JStr("time"),
                               JStr(ZuluStamp(IsoFormat(now))))
       IN [object |-> message, msg |-> msg, text |-> json_dumps(msg)]
  ELSE IF IsStr(message)
  THEN [object |-> message, msg |-> message, text |-> message[2]]
  ELSE IF IsList(message)
  THEN [object |-> message, msg |-> message, text |-> json_dumps(message)]
  ELSE [object |-> message, msg |-> message, text |-> ""]

\* the caller's message object, the object serialized and msgstr
Passed(message, m) ==
  [given |-> message, now |-> m.object, msg |-> m.msg, text |-> m.text]

\* send() without the test of lines 194-196
SendCallUnchecked ==
  /\ caller_pc = "idle" /\ ncalls < MaxCalls
  /\ ncalls' = ncalls + 1
  /\ \E message \in Payloads, now \in Clock, debug \in BOOLEAN :
       LET m == SendMessage(message, now)
       IN /\ payload' = Passed(message, m)
          /\ IF debug
             THEN /\ op' = Ended("send", "returned", "debug")
                  /\ UNCHANGED caller_pc
             ELSE IF m.text # ""
             THEN /\ op' = Ended("send", "running", "none")
                  /\ caller_pc' = "sending"
             ELSE /\ op' = Ended("send", "returned", "nothing")
                  /\ UNCHANGED caller_pc
  /\ UNCHANGED <<sess, conf, loop, net, hist, harness, close_called, out, ext>>

\* send(message) up to await self.ws.send(msgstr) (lines 193-217)
SendCall ==
  /\ caller_pc = "idle" /\ ncalls < MaxCalls
  /\ ncalls' = ncalls + 1
  /\ \E message \in Payloads, now \in Clock, debug \in BOOLEAN :
       LET m == SendMessage(message, now)
       IN IF ~is_connected
          THEN /\ payload' = Passed(message, [m EXCEPT !.msg = JNull,
                                                       !.text = "",
                                                       !.object = message])
               /\ op' = Ended("send", "returned", "not connected")
               /\ UNCHANGED caller_pc
          ELSE /\ payload' = Passed(message, m)
               /\ IF debug
                  THEN /\ op' = Ended("send", "returned", "debug")
                       /\ UNCHANGED caller_pc
                  ELSE IF m.text # ""
                  THEN /\ op' = Ended("send", "running", "none")
                       /\ caller_pc' = "sending"
                  ELSE /\ op' = Ended("send", "returned", "nothing")
                       /\ UNCHANGED caller_pc
  /\ UNCHANGED <<sess, conf, loop, net, hist, harness, close_called, out, ext>>

\* self.ws.send(msgstr) returned (line 217)
SendWritten ==
  /\ caller_pc = "sending" /\ ws = "OPEN"
  /\ out' = Append(out, payload.text)
  /\ op' = Ended("send", "returned", "written")
  /\ caller_pc' = "idle"
  /\ UNCHANGED <<sess, conf, ncalls, loop, net, hist, harness, close_called,
                 payload, ext>>

\* a send() that lets ConnectionClosed pass without calling close()
SendFailedBare ==
  /\ caller_pc = "sending" /\ ws # "OPEN"
  /\ op' = Ended("send", "raised", "write")
  /\ caller_pc' = "idle"
  /\ UNCHANGED <<sess, conf, ncalls, loop, net, hist, harness, aux>>

\* self.ws.send(msgstr) raised ConnectionClosed (lines 218-219): close() up
\* to await self.ws.close()
SendFailed ==
  /\ caller_pc = "sending" /\ ws # "OPEN"
  /\ connection_state' = "Disconnecting"
  /\ caller_pc' = "send closing"
  /\ UNCHANGED <<ws, data, version, connected_uri, conf, op, ncalls, loop,
                 net, hist, harness, aux>>

\* self.ws.close() returned; close() ends and ConnectionClosed is raised
\* again (lines 219-220)
SendFailedClosed ==
  /\ caller_pc = "send closing"
  /\ ws' = "CLOSED"
  /\ connected_uri' = "None"
  /\ connection_state' = "Disconnected"
  /\ op' = Ended("send", "raised", "write")
  /\ caller_pc' = "idle"
  /\ UNCHANGED <<data, version, conf, ncalls, loop, net, hist, harness, aux>>

\* a Session without observers that does not track state
InitSend == Init /\ callbacks = <<>> /\ ~should_process_updates

NextSend ==
  \/ ConnectCall \/ ConnectResolved \/ ConnectOpened \/ ConnectOpenFailed
  \/ ConnectSnapshot \/ ConnectHandshakeClosed
  \/ CloseCall \/ CloseDone
  \/ PeerSendPlain \/ PeerClose
  \/ LoopRecv \/ LoopClosed \/ LoopCloseDone
  \/ SendCall \/ SendWritten \/ SendFailed \/ SendFailedClosed

SpecSend == InitSend /\ [][NextSend]_vars

\* ------------------------------------------------------------------------
\* send_command(cmd) and create_group(group)
\* ------------------------------------------------------------------------
\* lines 223-237 of send_command: the message passed to send(), or the
\* exception raised; None when send_command returns without sending
\* (line 236)
CommandMessageUngrouped(cmd) ==
  IF cmd \notin {"fold", "finish", "pause"}
  THEN Raised("FahClientUnknownCommand")
  ELSE IF TupleLess(version, <<8, 3>>)
  THEN Returned(JDict([cmd |-> JStr(IF cmd = "fold" THEN "unpause" ELSE cmd)]))
  ELSE Returned(JDict([state |-> JStr(cmd), cmd |-> JStr("state")]))

\* a send_command that passes self.group on as it is (no munged_group_name)
CommandMessageUnresolved(cmd) ==
  IF cmd \notin {"fold", "finish", "pause"}
  THEN Raised("FahClientUnknownCommand")
  ELSE IF TupleLess(version, <<8, 3>>)
  THEN Returned(JDict([cmd |-> JStr(IF cmd = "fold" THEN "unpause" ELSE cmd)]))
  ELSE LET msg == JDict([state |-> JStr(cmd), cmd |-> JStr("state")])
       IN IF IsNull(group) THEN Returned(msg)
          ELSE Returned(DictSet(msg, JStr("group"), group))

CommandMessage(cmd) ==
  IF cmd \notin {"fold", "finish", "pause"}
  THEN Raised("FahClientUnknownCommand")
  ELSE IF TupleLess(version, <<8, 3>>)
  THEN Returned(JDict([cmd |-> JStr(IF cmd = "fold" THEN "unpause" ELSE cmd)]))
  ELSE LET msg == JDict([state |-> JStr(cmd), cmd |-> JStr("state")])
           g == munged_group_name(group, data.data)
       IN IF IsNull(group) THEN Returned(msg)
          ELSE IF g.raised # "" THEN g
          ELSE IF IsNull(g.value) THEN Returned(JNull)
          ELSE Returned(DictSet(msg, JStr("group"), g.value))

\* the commands a caller passes: the three state commands and another one
Commands == {"fold", "finish", "pause", "dump"}

\* send_command(cmd) up to the first suspension: it raises, or returns at
\* line 236, or calls send(msg), which runs up to await self.ws.send
\* (lines 193-217)
SendCommandCall ==
  /\ caller_pc = "idle" /\ ncalls < MaxCalls
  /\ ncalls' = ncalls + 1
  /\ \E cmd \in Commands, now \in Clock, debug \in BOOLEAN :
       LET c == CommandMessage(cmd)
           m == SendMessage(c.value, now)
       IN /\ fcall' = [fn |-> "send_command", args |-> <<JStr(cmd)>>,
                       ret |-> c]
          /\ IF c.raised # ""
             THEN /\ op' = Ended("send_command", "raised", c.raised)
                  /\ UNCHANGED <<caller_pc, payload>>
             ELSE IF IsNull(c.value)
             THEN /\ op' = Ended("send_command", "returned", "none")
                  /\ UNCHANGED <<caller_pc, payload>>
             ELSE IF ~is_connected
             THEN /\ payload' = Passed(c.value, [m EXCEPT !.msg = JNull,
                                                          !.text = "",
                                                          !.object = c.value])
                  /\ op' = Ended("send", "returned", "not connected")
                  /\ UNCHANGED caller_pc
             ELSE /\ payload' = Passed(c.value, m)
                  /\ IF debug
                     THEN /\ op' = Ended("send", "returned", "debug")
                          /\ UNCHANGED caller_pc
                     ELSE /\ op' = Ended("send", "running", "none")
                          /\ caller_pc' = "sending"
  /\ UNCHANGED <<sess, conf, loop, net, hist, harness, close_called, out,
                 group, conn_pc, watch_attr>>

\* the groups the Session is constructed with (self._group): none, the
\* default group, one that may exist under two names, one that does not
\* exist
SessionGroups == {JNull, JStr(""), JStr("gpu"), JStr("cpu")}

\* a Session for a peer with or without a group, without observers
InitCmd ==
  /\ ws = "None"
  /\ connection_state = ""
  /\ data = Updatable(EmptyDict, FALSE, 0)
  /\ version = <<0, 0, 0>>
  /\ connected_uri = "None"
  /\ callbacks = <<>>
  /\ should_process_updates = TRUE
  /\ caller_pc = "idle" /\ op = Ended("none", "returned", "none")
  /\ ncalls = 0
  /\ loop_pc = "none" /\ cb_idx = 0
  /\ inbox = <<>> /\ sent = <<>> /\ nread = 0
  /\ trace = <<>> /\ snapshot0 = data
  /\ InitHarness
  /\ close_called = FALSE /\ out = <<>>
  /\ payload = [given |-> JNull, now |-> JNull]
  /\ group \in SessionGroups
  /\ fcall = NoCall
  /\ conn_pc = [t \in Tasks |-> "idle"]
  /\ watch_attr = "unset"

\* the peer sends its snapshot: an 8.1 peer, or an 8.4 peer with groups
CmdSnapshots == {SnapOld, SnapGroups, SnapSlash}
PeerSendSnapshot ==
  /\ ws = "OPEN" /\ sent = <<>>
  /\ \E m \in CmdSnapshots :
       /\ inbox' = Append(inbox, m)
       /\ sent' = Append(sent, m)
  /\ UNCHANGED <<sess, conf, call, loop, nread, hist, harness, aux>>

NextCmd ==
  \/ ConnectCall \/ ConnectResolved \/ ConnectOpened \/ ConnectSnapshot
  \/ PeerSendSnapshot \/ PeerClose
  \/ LoopClosed \/ LoopCloseDone
  \/ SendCommandCall \/ SendWritten \/ SendFailed \/ SendFailedClosed

SpecCmd == InitCmd /\ [][NextCmd]_vars

\* FahClient.groups (lines 70-76): the keys of self.data["groups"], or for
\* a peer older than 8.2 without any the peers whose name begins with "/"
\* (as a set: create_group tests membership only)
groups ==
  LET keys == IF DictHas(data.data, JStr("groups"))
              THEN DOMAIN DictGet(data.data, JStr("groups"))[2] ELSE {}
      peers == IF DictHas(data.data, JStr("peers"))
               THEN DictGet(data.data, JStr("peers"))[2] ELSE <<>>
  IN IF keys = {} /\ TupleLess(version, <<8, 2>>)
     THEN {peers[i][2] : i \in {j \in 1..Len(peers) :
                                  StartsWithSlash(peers[j][2])}}
     ELSE keys

\* lines 246-257 of create_group: the message passed to send(), or the
\* exception raised; None when the group exists already (line 254)
CreateGroupMessage(g) ==
  IF TupleLess(version, <<8, 3, 1>>)
  THEN Raised("Exception: create group requires client 8.3.1+")
  ELSE IF IsNull(g) THEN Raised("Exception: no group specified")
  ELSE IF Strip(g[2]) \in groups THEN Returned(JNull)
  ELSE Returned(JDict([state |-> JStr("pause"), cmd |-> JStr("state"),
                       group |-> JStr(Strip(g[2]))]))

\* the groups a caller asks for: none, one that exists, one that does not
NewGroups == {JNull, JStr("gpu"), JStr(" cpu ")}

\* a create_group that also enters the group in self.data itself, without
\* waiting for the peer's update
CreateGroupCallLocal ==
  /\ caller_pc = "idle" /\ ncalls < MaxCalls
  /\ ncalls' = ncalls + 1
  /\ \E g \in NewGroups, now \in Clock, debug \in BOOLEAN :
       LET c == CreateGroupMessage(g)
           m == SendMessage(c.value, now)
       IN /\ fcall' = [fn |-> "create_group", args |-> <<g>>, ret |-> c]
          /\ IF c.raised # ""
             THEN /\ op' = Ended("create_group", "raised", c.raised)
                  /\ UNCHANGED <<caller_pc, payload, data>>
             ELSE IF IsNull(c.value)
             THEN /\ op' = Ended("create_group", "returned", "exists")
                  /\ UNCHANGED <<caller_pc, payload, data>>
             ELSE /\ data' =
                       [data EXCEPT
                          !.data = DictSet(data.data, JStr("groups"),
                                     DictSet(DictGet(data.data, JStr("groups")),
                                             JStr(Strip(g[2])), EmptyDict))]
                  /\ IF ~is_connected
                     THEN /\ payload' =
                               Passed(c.value, [m EXCEPT !.msg = JNull,
                                                         !.text = "",
                                                         !.object = c.value])
                          /\ op' = Ended("send", "returned", "not connected")
                          /\ UNCHANGED caller_pc
                     ELSE /\ payload' = Passed(c.value, m)
                          /\ IF debug
                             THEN /\ op' = Ended("send", "returned", "debug")
                                  /\ UNCHANGED caller_pc
                             ELSE /\ op' = Ended("send", "running", "none")
                                  /\ caller_pc' = "sending"
  /\ UNCHANGED <<ws, connection_state, version, connected_uri, conf, loop,
                 net, hist, harness, close_called, out, group, conn_pc, watch_attr>>

\* create_group(group) up to the first suspension: it raises, or returns
\* at line 254, or calls send(msg), which runs up to await self.ws.send
\* (lines 193-217)
CreateGroupCall ==
  /\ caller_pc = "idle" /\ ncalls < MaxCalls
  /\ ncalls' = ncalls + 1
  /\ \E g \in NewGroups, now \in Clock, debug \in BOOLEAN :
       LET c == CreateGroupMessage(g)
           m == SendMessage(c.value, now)
       IN /\ fcall' = [fn |-> "create_group", args |-> <<g>>, ret |-> c]
          /\ IF c.raised # ""
             THEN /\ op' = Ended("create_group", "raised", c.raised)
                  /\ UNCHANGED <<caller_pc, payload>>
             ELSE IF IsNull(c.value)
             THEN /\ op' = Ended("create_group", "returned", "exists")
                  /\ UNCHANGED <<caller_pc, payload>>
             ELSE IF ~is_connected
             THEN /\ payload' = Passed(c.value, [m EXCEPT !.msg = JNull,
                                                          !.text = "",
                                                          !.object = c.value])
                  /\ op' = Ended("send", "returned", "not connected")
                  /\ UNCHANGED caller_pc
             ELSE /\ payload' = Passed(c.value, m)
                  /\ IF debug
                     THEN /\ op' = Ended("send", "returned", "debug")
                          /\ UNCHANGED caller_pc
                     ELSE /\ op' = Ended("send", "running", "none")
                          /\ caller_pc' = "sending"
  /\ UNCHANGED <<sess, conf, loop, net, hist, harness, close_called, out,
                 group, conn_pc, watch_attr>>

\* ------------------------------------------------------------------------
\* register_callback() and unregister_callback()
\* ------------------------------------------------------------------------
\* the observers the caller registers, none of which suspends
RegObservers == {"printer", "faulty"}

\* list.remove(x): the list without its first x
RemoveFirst(q, x) ==
  LET i == CHOOSE h \in 1..Len(q) :
             q[h] = x /\ \A g \in 1..(h - 1) : q[g] # x
  IN SubSeq(q, 1, i - 1) \o SubSeq(q, i + 1, Len(q))

\* register_callback(o) (lines 88-89), called while no frame is being
\* delivered
RegisterCallback ==
  /\ caller_pc = "idle" /\ loop_pc # "in_callback"
  /\ Len(callbacks) < MaxCallbacks
  /\ \E o \in RegObservers :
       /\ callbacks' = Append(callbacks, o)
       /\ op' = Ended("register", "returned", o)
  /\ UNCHANGED <<sess, should_process_updates, caller_pc, ncalls, loop, net,
                 hist, harness, aux>>

\* an unregister_callback() that removes every registration of the
\* observer
UnregisterCallbackAll ==
  /\ caller_pc = "idle" /\ loop_pc # "in_callback"
  /\ \E o \in RegObservers :
       IF \E i \in 1..Len(callbacks) : callbacks[i] = o
       THEN /\ callbacks' = SelectSeq(callbacks, LAMBDA c : c # o)
            /\ op' = Ended("unregister", "returned", o)
       ELSE /\ op' = Ended("unregister", "raised", o)
            /\ UNCHANGED callbacks
  /\ UNCHANGED <<sess, should_process_updates, caller_pc, ncalls, loop, net,
                 hist, harness, aux>>

\* unregister_callback(o) (lines 91-92), called while no frame is being
\* delivered; list.remove raises ValueError when o is not registered
UnregisterCallback ==
  /\ caller_pc = "idle" /\ loop_pc # "in_callback"
  /\ \E o \in RegObservers :
       IF \E i \in 1..Len(callbacks) : callbacks[i] = o
       THEN /\ callbacks' = RemoveFirst(callbacks, o)
            /\ op' = Ended("unregister", "returned", o)
       ELSE /\ op' = Ended("unregister", "raised", o)
            /\ UNCHANGED callbacks
  /\ UNCHANGED <<sess, should_process_updates, caller_pc, ncalls, loop, net,
                 hist, harness, aux>>

\* a Session that tracks state and has no observer yet
InitObs == Init /\ callbacks = <<>> /\ should_process_updates

\* a peer that sends a snapshot and then one instruction after another
PeerSendUpdates ==
  /\ ws = "OPEN" /\ Len(sent) <= MaxFrames
  /\ LET m == IF sent = <<>> THEN SnapNew ELSE MsgAppend
     IN /\ inbox' = Append(inbox, m)
        /\ sent' = Append(sent, m)
  /\ UNCHANGED <<sess, conf, call, loop, nread, hist, harness, aux>>

NextObs ==
  \/ ConnectCall \/ ConnectResolved \/ ConnectOpened \/ ConnectSnapshot
  \/ PeerSendUpdates \/ LoopRecv
  \/ RegisterCallback \/ UnregisterCallback

SpecObs == InitObs /\ [][NextObs]_vars

\* ------------------------------------------------------------------------
\* The caller's operations next to the receive loop: a caller that sends,
\* creates groups, registers observers, reads the accessors and closes
\* while the peer sends updates
\* ------------------------------------------------------------------------
\* connect() has seeded the document and started the receive loop
\* (lines 179-184)
Seeded == loop_pc # "none"

\* the caller registers an observer once connect() has returned, and may
\* take one off again before its next call
RegisterConnected == Seeded /\ op.name = "connect" /\ RegisterCallback
UnregisterNext == op.name = "register" /\ UnregisterCallback

\* the accessors is_connected, version, groups and state (lines 62-86),
\* read by the caller; they return without a suspension
Accessors == {"groups", "version", "state", "is_connected"}
ReadAccessor ==
  /\ caller_pc = "idle" /\ ncalls < MaxCalls
  /\ ncalls' = ncalls + 1
  /\ \E a \in Accessors : op' = Ended(a, "returned", "none")
  /\ UNCHANGED <<sess, conf, caller_pc, loop, net, hist, harness, aux>>

\* the peer sends its snapshot (8.1, or 8.4 with groups), and then the
\* update that adds a group
DocSnapshots == {SnapOld, SnapGroups}
PeerSendDoc ==
  /\ ws = "OPEN" /\ Len(sent) < MaxFrames
  /\ \E m \in (IF sent = <<>> THEN DocSnapshots ELSE {MsgGroupAdd}) :
       /\ inbox' = Append(inbox, m)
       /\ sent' = Append(sent, m)
  /\ UNCHANGED <<sess, conf, call, loop, nread, hist, harness, aux>>

\* a Session for the default group of its peer
InitDoc == InitCmd /\ group = JStr("")

NextDoc ==
  \/ ConnectCall \/ ConnectResolved \/ ConnectOpened \/ ConnectSnapshot
  \/ PeerSendDoc
  \/ LoopRecv \/ LoopClosed \/ LoopCloseDone
  \/ CloseCall \/ CloseDone
  \/ SendCall \/ SendCommandCall \/ CreateGroupCall \/ SendWritten
  \/ RegisterConnected \/ UnregisterNext \/ ReadAccessor

SpecDoc == InitDoc /\ [][NextDoc]_vars

\* ------------------------------------------------------------------------
\* Frame routing: a peer that sends the snapshot and then update
\* instructions, well-formed or not, and frames that are not JSON, to a
\* Session whose observers do not suspend
\* ------------------------------------------------------------------------
RouteFrames == {MsgGarbage, MsgAppend, MsgArity}
PeerSendRoute ==
  /\ ws = "OPEN" /\ Len(sent) <= MaxFrames
  /\ \E m \in (IF sent = <<>> THEN {SnapNew} ELSE RouteFrames) :
       /\ inbox' = Append(inbox, m)
       /\ sent' = Append(sent, m)
  /\ UNCHANGED <<sess, conf, call, loop, nread, hist, harness, aux>>

InitRoute == Init /\ \A i \in 1..Len(callbacks) : ~Suspends(callbacks[i])

NextRoute ==
  \/ ConnectCall \/ ConnectResolved \/ ConnectOpened \/ ConnectSnapshot
  \/ PeerSendRoute \/ PeerClose
  \/ LoopRecv \/ LoopClosed \/ LoopCloseDone

SpecRoute == InitRoute /\ [][NextRoute]_vars

\* ------------------------------------------------------------------------
\* Functions of lufah.util called on their own: the arguments of the call
\* are drawn when the Session is constructed, and the call is made once
\* ------------------------------------------------------------------------
Pending == Returned(<<"pending">>)
Call(fn, args) == [fn |-> fn, args |-> args, ret |-> Pending]

\* a Session just constructed, no observer registered, and the call to make
InitFn(calls) ==
  /\ ws = "None"
  /\ connection_state = ""
  /\ data = Updatable(EmptyDict, FALSE, 0)
  /\ version = <<0, 0, 0>>
  /\ connected_uri = "None"
  /\ callbacks = <<>>
  /\ should_process_updates = TRUE
  /\ caller_pc = "idle" /\ op = Ended("none", "returned", "none")
  /\ ncalls = 0
  /\ loop_pc = "none" /\ cb_idx = 0
  /\ inbox = <<>> /\ sent = <<>> /\ nread = 0
  /\ trace = <<>> /\ snapshot0 = data
  /\ InitHarness /\ InitAux
  /\ fcall \in calls

\* group names, and snapshots that list them: under "groups" (8.2 and
\* later), or among the "peers" (8.1)
GroupNames == {"", "/", "gpu", "/gpu"}
PeerLists ==
  {<<>>, <<JStr("/gpu")>>, <<JStr("gpu"), JStr("/gpu")>>,
   <<JStr("/gpu"), JStr("//gpu")>>}
SnapshotOfGroups(names) == JDict("groups" :> JDict([n \in names |-> EmptyDict]))
SnapshotOfPeers(peers) == JDict("peers" :> JList(peers))
GroupSnapshots ==
  {JNull}
    \cup {SnapshotOfGroups(names) : names \in SUBSET GroupNames}
    \cup {SnapshotOfPeers(peers) : peers \in PeerLists}
    \cup {JDict(("groups" :> JDict("gpu" :> EmptyDict))
                @@ ("peers" :> JList(<<JStr("/gpu")>>)))}
GroupRequests == {JNull} \cup {JStr(g) : g \in {"", "/", "gpu", "/gpu", "cpu"}}

InitGroup ==
  InitFn({Call("munged_group_name", <<g, snapshot>>) :
            g \in GroupRequests, snapshot \in GroupSnapshots})

\* the call munged_group_name(group, snapshot)
MungeGroup ==
  /\ fcall.fn = "munged_group_name" /\ fcall.ret = Pending
  /\ fcall' = [fcall EXCEPT
                 !.ret = munged_group_name(fcall.args[1], fcall.args[2])]
  /\ UNCHANGED <<sess, conf, call, loop, net, hist, harness, close_called,
                 out, payload, group, conn_pc, watch_attr>>

SpecGroup == InitGroup /\ [][MungeGroup]_vars

\* peer strings [host][:port][/group], and no peer string (None)
PeerHosts == {"", ".", "localhost", "host", "a.b", "HOST"}
PeerPorts == {"", ":1234", ":0", ":x"}
PeerGroups == {"", "/", "/rg2", "//", "//name", "/a b"}
Peers ==
  {JNull} \cup {JStr(h \o p \o g) :
                  h \in PeerHosts, p \in PeerPorts, g \in PeerGroups}

InitPeer == InitFn({Call("FahClient", <<peer>>) : peer \in Peers})

\* FahClient(peer): lines 34-44 of __init__, which set self._uri and
\* self._group, or raise
Construct ==
  /\ fcall.fn = "FahClient" /\ fcall.ret = Pending
  /\ LET r == SessionPeer(fcall.args[1])
     IN /\ fcall' = [fcall EXCEPT !.ret = r]
        /\ group' = IF r.raised = "" THEN r.value[2] ELSE group
  /\ UNCHANGED <<sess, conf, call, loop, net, hist, harness, close_called,
                 out, payload, conn_pc, watch_attr>>

SpecPeer == InitPeer /\ [][Construct]_vars

\* ------------------------------------------------------------------------
\* connect() of a Session constructed from a peer string, with the
\* resolution of its host
\* ------------------------------------------------------------------------
\* peers without a group: single-label names, dotted names, an address
ResolvePeers ==
  {JStr(p) : p \in {"localhost", "host", "host.local", "a.b", "a.b.local",
                    "192.0.2.9", "host:1234"}}

\* the Session as FahClient(peer) has constructed it
InitResolve ==
  InitFn({[fn |-> "FahClient", args |-> <<peer>>, ret |-> SessionPeer(peer)] :
            peer \in ResolvePeers})

\* the peer string the Session was constructed from, and self._uri
ClientPeer == fcall.args[1]
ClientUri == IF fcall.fn = "FahClient" THEN fcall.ret.value[1]
             ELSE fcall.args[2]

\* ipv4_uri_for_uri(self._uri) returned or raised (lines 145-148 of
\* connect(), line 145 being outside the try)
ConnectResolvedUri ==
  /\ caller_pc = "resolving"
  /\ \E resolvable \in SUBSET {DnsNames[i] : i \in 1..Len(DnsNames)} :
       LET r == ipv4_uri_for_uri(ClientUri, resolvable)
       IN /\ fcall' = [fn |-> "ipv4_uri_for_uri",
                       args |-> <<ClientPeer, ClientUri, resolvable>>,
                       ret |-> r]
          /\ IF r.raised = ""
             THEN /\ connected_uri' = "None"
                  /\ connection_state' = "Connecting..."
                  /\ caller_pc' = "opening"
                  /\ UNCHANGED op
             ELSE /\ op' = Ended("connect", "raised", "resolve")
                  /\ caller_pc' = "idle"
                  /\ UNCHANGED <<connected_uri, connection_state>>
  /\ UNCHANGED <<ws, data, version, conf, ncalls, loop, net, hist, harness,
                 close_called, out, payload, group, conn_pc, watch_attr>>

NextResolve ==
  ConnectCall \/ ConnectResolvedUri \/ ConnectOpened \/ ConnectOpenFailed

SpecResolve == InitResolve /\ [][NextResolve]_vars

\* ------------------------------------------------------------------------
\* Replay of a tape of frames, transport bypassed (tests/test_updatable.py)
\* ------------------------------------------------------------------------
TestSnapshots == {SnapNew, SnapOld, SnapEmpty}
TestMessages ==
  {MsgPing, MsgAppend, MsgExtend, MsgBeyond, MsgPop, MsgReplace, MsgSet,
   MsgDelete, MsgRootSet, MsgCreate, MsgDeleteAbsent, MsgStrIndex, MsgIntKey,
   MsgArity, MsgExtendInt, MsgHyphen, MsgDict, MsgNumber}

\* a Session that tracks state, has no observer and no transport, and three
\* copies of one Updatable built from a snapshot
InitUpd ==
  /\ ws = "None"
  /\ connection_state = ""
  /\ \E s \in TestSnapshots, compat_mode \in BOOLEAN :
       data = Updatable(json_loads(s).value, compat_mode, 0)
  /\ version = <<0, 0, 0>>
  /\ connected_uri = "None"
  /\ callbacks = <<>>
  /\ should_process_updates = TRUE
  /\ caller_pc = "idle" /\ op = Ended("none", "returned", "none")
  /\ ncalls = 0
  /\ loop_pc = "none" /\ cb_idx = 0
  /\ inbox = <<>> /\ sent = <<>> /\ nread = 0
  /\ trace = <<>> /\ snapshot0 = data
  /\ InitHarness /\ InitAux /\ fcall = NoCall

\* the next frame of the tape: the Session routes the text
\* (_process_message, no observer registered), and the decoded value is
\* passed to do_update on `state`, as test_real_data_with_final_state does
Feed ==
  /\ Len(tape) < MaxUpdates
  /\ \E m \in TestMessages :
       LET now == Later(state)
           r == do_update(state, json_loads(m).value, now)
       IN /\ data' = RouteFrame(data, should_process_updates, m, now).data
          /\ tape' = Append(tape, m)
          /\ pre' = state
          /\ upd' = json_loads(m).value
          /\ state' = r.self
          /\ raised' = r.raised
  /\ UNCHANGED <<ws, connection_state, version, connected_uri, conf, call,
                 loop, net, hist, replay, nreplayed, aux>>

\* the second replay applies the next frame of the tape
Replay ==
  /\ nreplayed < Len(tape)
  /\ \E now \in Clock :
       replay' = do_update(replay, json_loads(tape[nreplayed + 1]).value,
                           now).self
  /\ nreplayed' = nreplayed + 1
  /\ UNCHANGED <<sess, conf, call, loop, net, hist, tape, state, pre, upd,
                 raised, aux>>

NextUpd == Feed \/ Replay

SpecUpd == InitUpd /\ [][NextUpd]_vars

\* ------------------------------------------------------------------------
\* Update instructions with a key path: the document as connect() seeds it
\* from the snapshot (lines 175-179), compat mode for a peer older than
\* 8.3, and then one instruction after another passed to do_update
\* ------------------------------------------------------------------------
PathSnapshots == {SnapNew, SnapOld, SnapLong, SnapEdge}
PathMessages ==
  {MsgCreate, MsgDeleteAbsent, MsgNest, MsgPast, MsgHyphen, MsgLong,
   MsgRootInt}

InitPath ==
  /\ ws = "None"
  /\ connection_state = ""
  /\ \E s \in PathSnapshots :
       LET h == ParseSnapshot(s)
       IN /\ version = h.version
          /\ data = Updatable(h.snapshot, h.old, 0)
          /\ sent = <<s>>
  /\ connected_uri = "None"
  /\ callbacks = <<>>
  /\ should_process_updates = TRUE
  /\ caller_pc = "idle" /\ op = Ended("none", "returned", "none")
  /\ ncalls = 0
  /\ loop_pc = "none" /\ cb_idx = 0
  /\ inbox = <<>> /\ nread = 1
  /\ trace = <<>> /\ snapshot0 = data
  /\ InitHarness /\ InitAux /\ fcall = NoCall

\* the next instruction: routed by the Session (_process_message) and
\* passed to do_update on `state`
FeedPath ==
  /\ Len(tape) < MaxUpdates
  /\ \E m \in PathMessages :
       LET now == Later(state)
           r == do_update(state, json_loads(m).value, now)
       IN /\ data' = RouteFrame(data, should_process_updates, m, now).data
          /\ tape' = Append(tape, m)
          /\ pre' = state
          /\ upd' = json_loads(m).value
          /\ state' = r.self
          /\ raised' = r.raised
  /\ UNCHANGED <<ws, connection_state, version, connected_uri, conf, call,
                 loop, net, hist, replay, nreplayed, aux>>

SpecPath == InitPath /\ [][FeedPath]_vars

\* ------------------------------------------------------------------------
\* Delivery of a frame to observers that change self._callbacks
\* ------------------------------------------------------------------------
\* observers, each registered at most once
IterObservers == {"o1", "o2", "o3"}
IterLists ==
  {q \in UNION {[1..n -> IterObservers] : n \in 0..MaxCallbacks} :
     \A i, j \in 1..Len(q) : q[i] = q[j] => i = j}
Registered(q) == {q[i] : i \in 1..Len(q)}

\* what an observer does with the Session in its callback: nothing,
\* client.unregister_callback(x) of a registered x (itself or another), or
\* client.register_callback(x) of an x that is not registered
ObserverActs(q) ==
  {<<"none", "">>}
  \cup {<<"unregister", x>> : x \in Registered(q)}
  \cup {<<"register", x>> :
          x \in {y \in IterObservers \ Registered(q) :
                   Len(q) <= MaxCallbacks}}
\* self._callbacks after the act (lines 89 and 92)
AfterAct(q, act) ==
  IF act[1] = "unregister" THEN RemoveFirst(q, act[2])
  ELSE IF act[1] = "register" THEN Append(q, act[2])
  ELSE q

\* a connected Session with its observers registered, its receive loop
\* waiting for a frame
InitIter ==
  /\ ws = "OPEN"
  /\ connection_state = "Connected"
  /\ LET h == ParseSnapshot(SnapNew)
     IN /\ version = h.version
        /\ data = Updatable(h.snapshot, h.old, 0)
  /\ connected_uri = "None"
  /\ callbacks \in IterLists
  /\ should_process_updates = TRUE
  /\ caller_pc = "idle" /\ op = Ended("none", "returned", "none")
  /\ ncalls = 0
  /\ loop_pc = "recv" /\ cb_idx = 0
  /\ inbox = <<>> /\ sent = <<SnapNew>> /\ nread = 1
  /\ trace = <<>> /\ snapshot0 = data
  /\ InitHarness /\ InitAux /\ fcall = NoCall

\* the peer sends a frame
PeerSendIter ==
  /\ ws = "OPEN" /\ Len(sent) < MaxFrames
  /\ \E m \in {MsgAppend} :
       /\ inbox' = Append(inbox, m)
       /\ sent' = Append(sent, m)
  /\ UNCHANGED <<sess, conf, call, loop, nread, hist, harness, aux>>

\* _receive_messages reads a frame and _process_message runs up to the for
\* statement (lines 123-124, 94-110): the list iterator starts at index 0
\* of self._callbacks itself
DeliverBegin ==
  /\ loop_pc = "recv" /\ ws = "OPEN" /\ inbox # <<>>
  /\ data' = RouteFrame(data, should_process_updates, Head(inbox),
                        Later(data)).data
  /\ trace' = Append(trace, <<"deliver", nread, callbacks>>)
  /\ loop_pc' = "iterating" /\ cb_idx' = 0
  /\ inbox' = Tail(inbox) /\ nread' = nread + 1
  /\ UNCHANGED <<ws, connection_state, version, connected_uri, conf, call,
                 sent, snapshot0, harness, aux>>

\* a for loop whose iterator misses every second item
DeliverNextSkipping ==
  /\ loop_pc = "iterating" /\ cb_idx < Len(callbacks)
  /\ \E act \in ObserverActs(callbacks) :
       /\ trace' = Append(trace, <<"call", nread - 1,
                                   callbacks[cb_idx + 1], act>>)
       /\ callbacks' = AfterAct(callbacks, act)
  /\ cb_idx' = cb_idx + 2
  /\ UNCHANGED <<sess, should_process_updates, call, loop_pc, net,
                 snapshot0, harness, aux>>

\* one turn of the for loop (lines 110-119): the iterator yields the item
\* at its index of the list as the list is now and advances, and the
\* observer is awaited
DeliverNext ==
  /\ loop_pc = "iterating" /\ cb_idx < Len(callbacks)
  /\ \E act \in ObserverActs(callbacks) :
       /\ trace' = Append(trace, <<"call", nread - 1,
                                   callbacks[cb_idx + 1], act>>)
       /\ callbacks' = AfterAct(callbacks, act)
  /\ cb_idx' = cb_idx + 1
  /\ UNCHANGED <<sess, should_process_updates, call, loop_pc, net,
                 snapshot0, harness, aux>>

\* the iterator's index has reached the length of the list as it is now:
\* the for loop ends and _receive_messages waits for the next frame
DeliverEnd ==
  /\ loop_pc = "iterating" /\ cb_idx >= Len(callbacks)
  /\ loop_pc' = "recv" /\ cb_idx' = 0
  /\ UNCHANGED <<sess, conf, call, net, hist, harness, aux>>

NextIter == PeerSendIter \/ DeliverBegin \/ DeliverNext \/ DeliverEnd

SpecIter == InitIter /\ [][NextIter]_vars

\* ------------------------------------------------------------------------
\* connect() called by two tasks on one Session
\* ------------------------------------------------------------------------
\* the snapshot the peer sends first on every transport that is opened
TwoSnapshots == {SnapNew, SnapOld}

\* a Session on which no task has called connect() yet
InitTwo ==
  /\ ws = "None"
  /\ connection_state = ""
  /\ data = Updatable(EmptyDict, FALSE, 0)
  /\ version = <<0, 0, 0>>
  /\ connected_uri = "None"
  /\ callbacks = <<>>
  /\ should_process_updates = TRUE
  /\ caller_pc = "idle" /\ op = Ended("none", "returned", "none")
  /\ ncalls = 0
  /\ loop_pc = "none" /\ cb_idx = 0
  /\ inbox = <<>> /\ sent = <<>> /\ nread = 0
  /\ trace = <<>> /\ snapshot0 = data
  /\ InitHarness /\ InitAux /\ fcall = NoCall

\* task t calls connect() and runs to its first await (lines 137-145), to
\* line 174 when self.ws is set and not open, or returns at line 138
ConnectCallTwo(t) ==
  /\ conn_pc[t] \in {"idle", "returned"} /\ ncalls < MaxCalls
  /\ ncalls' = ncalls + 1
  /\ IF is_connected
     THEN /\ conn_pc' = [conn_pc EXCEPT ![t] = "returned"]
          /\ UNCHANGED connection_state
     ELSE IF ws = "None"
     THEN /\ conn_pc' = [conn_pc EXCEPT ![t] = "resolving"]
          /\ connection_state' = "Connecting.."
     ELSE /\ conn_pc' = [conn_pc EXCEPT ![t] = "handshake"]
          /\ UNCHANGED connection_state
  /\ UNCHANGED <<ws, data, version, connected_uri, conf, caller_pc, op, loop,
                 net, hist, harness, close_called, out, payload, group,
                 fcall, watch_attr>>

\* ipv4_uri_for_uri returns to task t, which runs to the await of line 149
ConnectResolvedTwo(t) ==
  /\ conn_pc[t] = "resolving"
  /\ conn_pc' = [conn_pc EXCEPT ![t] = "opening"]
  /\ connected_uri' = "None"
  /\ connection_state' = "Connecting..."
  /\ UNCHANGED <<ws, data, version, conf, call, loop, net, hist, harness,
                 close_called, out, payload, group, fcall,
                 watch_attr>>

\* the transport of task t is opened and assigned to self.ws, whatever
\* self.ws holds by now, and the task runs to the await of line 174
\* (lines 149-156)
ConnectOpenedTwo(t) ==
  /\ conn_pc[t] = "opening"
  /\ ws' = "OPEN"
  /\ trace' = Append(trace, <<"open", t>>)
  /\ connected_uri' = "uri"
  /\ connection_state' = "Connected"
  /\ conn_pc' = [conn_pc EXCEPT ![t] = "handshake"]
  /\ UNCHANGED <<data, version, conf, call, loop, net, snapshot0, harness,
                 close_called, out, payload, group, fcall,
                 watch_attr>>

\* opening the transport of task t fails with OSError (lines 162-173)
ConnectFailedTwo(t) ==
  /\ conn_pc[t] = "opening"
  /\ data' = Updatable(EmptyDict, FALSE, Later(data))
  /\ version' = <<0, 0, 0>>
  /\ connection_state' = "Unreachable"
  /\ conn_pc' = [conn_pc EXCEPT ![t] = "returned"]
  /\ UNCHANGED <<ws, connected_uri, conf, call, loop, net, hist, harness,
                 close_called, out, payload, group, fcall,
                 watch_attr>>

\* task t reads the snapshot, seeds the document and starts a
\* _receive_messages task (lines 174-184)
ConnectSnapshotTwo(t) ==
  /\ conn_pc[t] = "handshake" /\ ws = "OPEN"
  /\ \E s \in TwoSnapshots :
       LET h == ParseSnapshot(s)
       IN /\ version' = h.version
          /\ data' = Updatable(h.snapshot, h.old, Later(data))
  /\ trace' = Append(trace, <<"loop", t>>)
  /\ loop_pc' = "recv"
  /\ conn_pc' = [conn_pc EXCEPT ![t] = "returned"]
  /\ UNCHANGED <<ws, connection_state, connected_uri, conf, call, cb_idx,
                 net, snapshot0, harness, close_called, out, payload, group,
                 fcall, watch_attr>>

NextTwo ==
  \E t \in Tasks :
    \/ ConnectCallTwo(t)
    \/ ConnectResolvedTwo(t)
    \/ ConnectOpenedTwo(t)
    \/ ConnectFailedTwo(t)
    \/ ConnectSnapshotTwo(t)

SpecTwo == InitTwo /\ [][NextTwo]_vars

\* ------------------------------------------------------------------------
\* Session.groups next to munged_group_name
\* ------------------------------------------------------------------------
ListingVersions == {<<8, 1>>, <<8, 4>>}

\* a Session whose document was seeded with a snapshot by a peer of some
\* version (lines 177-179), and the call
\* munged_group_name(group, client.data) to make
InitListing ==
  /\ ws = "OPEN"
  /\ connection_state = "Connected"
  /\ version \in ListingVersions
  /\ \E snapshot \in GroupSnapshots \ {JNull} :
       data = Updatable(snapshot, TupleLess(version, <<8, 3>>), 0)
  /\ connected_uri = "uri"
  /\ callbacks = <<>>
  /\ should_process_updates = TRUE
  /\ caller_pc = "idle" /\ op = Ended("none", "returned", "none")
  /\ ncalls = 0
  /\ loop_pc = "recv" /\ cb_idx = 0
  /\ inbox = <<>> /\ sent = <<>> /\ nread = 0
  /\ trace = <<>> /\ snapshot0 = data
  /\ InitHarness /\ InitAux
  /\ fcall \in {Call("munged_group_name", <<g, data.data>>) :
                  g \in GroupRequests}

SpecListing == InitListing /\ [][MungeGroup]_vars

\* ------------------------------------------------------------------------
\* The watch command
\* ------------------------------------------------------------------------
\* do_watch up to its connect() (watch.py lines 22-24) on a Session built
\* by the command line (FahClient(peer): should_process_updates=True): the
\* printing observer registered, and args.debug assigned to the attribute
\* client.should_process_updates
InitWatch ==
  /\ ws = "None"
  /\ connection_state = ""
  /\ data = Updatable(EmptyDict, FALSE, 0)
  /\ version = <<0, 0, 0>>
  /\ connected_uri = "None"
  /\ callbacks = <<"printer">>
  /\ should_process_updates = TRUE
  /\ caller_pc = "idle" /\ op = Ended("none", "returned", "none")
  /\ ncalls = 0
  /\ loop_pc = "none" /\ cb_idx = 0
  /\ inbox = <<>> /\ sent = <<>> /\ nread = 0
  /\ trace = <<>> /\ snapshot0 = data
  /\ InitHarness
  /\ close_called = FALSE /\ out = <<>>
  /\ payload = [given |-> JNull, now |-> JNull]
  /\ group = JNull /\ fcall = NoCall
  /\ conn_pc = [t \in Tasks |-> "idle"]
  /\ watch_attr \in BOOLEAN

\* await client.connect() (watch.py line 25), called once
WatchConnect == ncalls = 0 /\ ConnectCall

\* do_watch then waits in client.ws.wait_closed() (line 30) while the peer
\* sends frames and the receive loop routes them
NextWatch ==
  \/ WatchConnect \/ ConnectResolved \/ ConnectOpened \/ ConnectOpenFailed
  \/ ConnectSnapshot \/ ConnectHandshakeClosed
  \/ PeerSendPlain \/ PeerClose
  \/ LoopRecv \/ LoopClosed \/ LoopCloseDone

SpecWatch == InitWatch /\ [][NextWatch]_vars

\* ------------------------------------------------------------------------
\* The wait-until-paused observer
\* ------------------------------------------------------------------------
\* d.get(k, default) for a dict d
Get(d, k, default) == IF DictHas(d, JStr(k)) THEN DictGet(d, JStr(k)) ELSE default

\* _no_enabled_gpus(gpus) (wait_until_paused.py lines 8-12)
no_enabled_gpus(gpus) ==
  \A x \in DOMAIN gpus[2] : Get(gpus[2][x], "enabled", JBool(FALSE)) # JBool(TRUE)

\* lines 27-30: the config of a group in the document
GroupConfig(doc, g) ==
  Get(Get(Get(doc, "groups", EmptyDict), g, EmptyDict), "config", EmptyDict)

\* an observer that counts cpus only as the resources of a group
close_if_paused_cpus_only(client_group, client_groups, doc) ==
  IF ~IsNull(client_group) /\ client_group[2] \notin client_groups
  THEN "raise"
  ELSE LET targets == IF IsNull(client_group) THEN client_groups
                      ELSE {client_group[2]}
           returns(g) ==
             LET gconfig == GroupConfig(doc, g)
             IN IF Get(gconfig, "cpus", JInt(0))[2] <= 0
                THEN FALSE
                ELSE Get(gconfig, "paused", JNull) = JBool(FALSE)
       IN IF \E g \in targets : returns(g) THEN "return" ELSE "close"

\* _close_if_paused(client, _) (lines 15-38): "raise" (line 21), "return"
\* (line 34: the for loop came to a group that is not skipped at line 32
\* and whose paused is False), or "close" (line 38)
close_if_paused(client_group, client_groups, doc) ==
  IF ~IsNull(client_group) /\ client_group[2] \notin client_groups
  THEN "raise"
  ELSE LET targets == IF IsNull(client_group) THEN client_groups
                      ELSE {client_group[2]}
           returns(g) ==
             LET gconfig == GroupConfig(doc, g)
             IN IF Get(gconfig, "cpus", JInt(0))[2] <= 0
                   /\ no_enabled_gpus(Get(gconfig, "gpus", EmptyDict))
                THEN FALSE
                ELSE Get(gconfig, "paused", JNull) = JBool(FALSE)
       IN IF \E g \in targets : returns(g) THEN "return" ELSE "close"

\* group configs: paused true, false or missing; no cpus or two; no gpu,
\* one enabled or one disabled
Gpu(enabled) == JDict("g0" :> JDict("enabled" :> JBool(enabled)))
GpuSets == {EmptyDict, Gpu(TRUE), Gpu(FALSE)}
ConfigOf(paused, cpus, gpus) ==
  JDict((IF paused = "missing" THEN <<>>
         ELSE "paused" :> JBool(paused = "true"))
        @@ ("cpus" :> JInt(cpus)) @@ ("gpus" :> gpus))
Configs ==
  {ConfigOf(p, c, g) : p \in {"true", "false", "missing"}, c \in {0, 2},
                       g \in GpuSets}
FewConfigs ==
  {ConfigOf("true", 2, EmptyDict), ConfigOf("false", 2, EmptyDict),
   ConfigOf("false", 0, Gpu(FALSE))}
\* documents with the default group, and with or without a group "gpu"
PausedDocs ==
  {JDict("groups" :> JDict("" :> JDict("config" :> c))) : c \in Configs}
  \cup {JDict("groups" :> JDict(("" :> JDict("config" :> c))
                                 @@ ("gpu" :> JDict("config" :> d)))) :
          c \in Configs, d \in FewConfigs}
\* the group of the peer string
PausedSelections == {JNull, JStr(""), JStr("gpu"), JStr("cpu")}
\* the frames the peer sends, decoded: the heartbeat, and the instructions
\* that pause or unpause a group
PausedFrames ==
  {JStr("ping")}
  \cup {JList(<<JStr("groups"), JStr(g), JStr("config"), JStr("paused"),
                JBool(b)>>) : g \in {"", "gpu"}, b \in BOOLEAN}

\* do_wait_until_paused up to its wait (lines 43-53) for a peer of 8.4:
\* the observer registered, the Session connected and its document seeded
InitPaused ==
  /\ ws = "OPEN"
  /\ connection_state = "Connected"
  /\ version = <<8, 4>>
  /\ \E doc \in PausedDocs : data = Updatable(doc, FALSE, 0)
  /\ connected_uri = "uri"
  /\ callbacks = <<"close_if_paused">>
  /\ should_process_updates = TRUE
  /\ caller_pc = "idle" /\ op = Ended("connect", "returned", "none")
  /\ ncalls = 1
  /\ loop_pc = "recv" /\ cb_idx = 0
  /\ inbox = <<>> /\ sent = <<>> /\ nread = 1
  /\ trace = <<>> /\ snapshot0 = data
  /\ InitHarness
  /\ close_called = FALSE /\ out = <<>>
  /\ payload = [given |-> JNull, now |-> JNull]
  /\ group \in PausedSelections /\ fcall = NoCall
  /\ conn_pc = [t \in Tasks |-> "idle"]
  /\ watch_attr = "unset"

\* _process_message for a frame of the peer (fahclient.py lines 105-119):
\* do_update, then the observer, which returns, raises (caught at line
\* 113) or suspends in client.close() (lines 187-189)
DeliverPaused ==
  /\ loop_pc = "recv" /\ ws = "OPEN" /\ nread <= MaxFrames
  /\ UNCHANGED <<version, connected_uri, conf, call, inbox, sent, snapshot0,
                 harness, aux>>
  /\ \E frame \in PausedFrames :
       /\ data' = do_update(data, frame, Later(data)).self
       /\ LET outcome == close_if_paused(group, groups', data'.data)
          IN /\ trace' = Append(trace, <<outcome, nread, frame>>)
             /\ IF outcome = "close"
                THEN /\ ws' = "CLOSING"
                     /\ connection_state' = "Disconnecting"
                     /\ loop_pc' = "in_callback" /\ cb_idx' = 1
                ELSE UNCHANGED <<ws, connection_state, loop_pc, cb_idx>>
  /\ nread' = nread + 1

\* self.ws.close() returns to the observer, close() ends (lines 190-191)
\* and the for loop of _process_message ends
PausedCloseDone ==
  /\ loop_pc = "in_callback" /\ ws = "CLOSING"
  /\ ws' = "CLOSED"
  /\ connected_uri' = "None"
  /\ connection_state' = "Disconnected"
  /\ loop_pc' = "recv" /\ cb_idx' = 0
  /\ UNCHANGED <<data, version, conf, call, net, hist, harness, aux>>

NextPaused == DeliverPaused \/ PausedCloseDone

SpecPaused == InitPaused /\ [][NextPaused]_vars

\* ------------------------------------------------------------------------
\* The mock server (scripts/mock_client.py) and one client Session
\* ------------------------------------------------------------------------
\* json.loads(json.dumps(v)): json.dumps writes an int key of a dict as
\* its decimal str and a None key as "null"; list items and values keep
\* their types
WireName(x) ==
  IF x = "#None" THEN "null"
  ELSE IF StartsWith(x, "#") THEN SubSeq(x, 2, Len(x)) ELSE x
RECURSIVE json_roundtrip(_)
json_roundtrip(v) ==
  IF IsList(v)
  THEN JList([i \in 1..Len(v[2]) |-> json_roundtrip(v[2][i])])
  ELSE IF is_dict(v)
  THEN LET names == {WireName(x) : x \in DOMAIN v[2]}
           src(n) == CHOOSE x \in DOMAIN v[2] : WireName(x) = n
       IN JDict([n \in names |-> json_roundtrip(v[2][src(n)])])
  ELSE v

\* the data file: its first object, and the updates that follow it
MockSnapshots == {SnapNew, SnapOld, SnapLong}
MockUpdates == {MsgPing, MsgAppend, MsgHyphen, MsgDeleteAbsent, MsgRootInt}

\* MockServer._initialize_state (lines 64-81) on `state`, and a Session
\* that has not connected (the frames in flight are held decoded)
InitMock ==
  /\ ws = "None"
  /\ connection_state = ""
  /\ data = Updatable(EmptyDict, FALSE, 0)
  /\ version = <<0, 0, 0>>
  /\ connected_uri = "None"
  /\ callbacks = <<>>
  /\ should_process_updates = TRUE
  /\ caller_pc = "idle" /\ op = Ended("none", "returned", "none")
  /\ ncalls = 0
  /\ loop_pc = "none" /\ cb_idx = 0
  /\ inbox = <<>> /\ sent = <<>> /\ nread = 0
  /\ trace = <<>> /\ snapshot0 = data
  /\ \E s \in MockSnapshots :
       LET u0 == Updatable(json_loads(s).value, FALSE, 0)
           u1 == do_update(u0, JList(<<JStr("info"), JStr("hostname"),
                                       JStr("host")>>), 1).self
       IN state = do_update(u1, JList(<<JStr("info"), JStr("mach_name"),
                                        JStr("Mock")>>), 1).self
  /\ tape = <<>> /\ replay = data /\ nreplayed = 0
  /\ pre = state /\ upd = JNull /\ raised = FALSE
  /\ InitAux /\ fcall = NoCall

\* one turn of _apply_updates_and_broadcast (lines 98-119): the next update
\* of the queue applied to the server's state, and broadcast to the client
\* when it is connected; an exception of do_update ends the task
ServerApply ==
  /\ ~raised /\ Len(tape) < MaxUpdates
  /\ \E m \in MockUpdates :
       LET update == json_loads(m).value
           r == do_update(state, update, Later(state))
           frame == json_roundtrip(update)
       IN /\ state' = r.self
          /\ raised' = r.raised
          /\ pre' = state /\ upd' = update
          /\ tape' = Append(tape, m)
          /\ IF ~r.raised /\ ws = "OPEN"
             THEN inbox' = Append(inbox, frame) /\ sent' = Append(sent, frame)
             ELSE UNCHANGED <<inbox, sent>>
  /\ UNCHANGED <<sess, conf, call, loop, nread, hist, replay, nreplayed, aux>>

\* the Session opens its transport (fahclient.py line 149) and
\* _new_client_handler adds it to the clients and sends json.dumps of the
\* state as it is now (lines 153-156)
ClientJoin ==
  /\ ws = "None"
  /\ ws' = "OPEN" /\ connection_state' = "Connected"
  /\ connected_uri' = "uri"
  /\ inbox' = <<json_roundtrip(state.data)>>
  /\ sent' = <<json_roundtrip(state.data)>>
  /\ trace' = Append(trace, <<"snapshot", Len(tape)>>)
  /\ UNCHANGED <<data, version, conf, call, loop, nread, snapshot0, harness,
                 aux>>

\* connect() reads the snapshot, seeds the document and starts the receive
\* loop (fahclient.py lines 174-184)
ClientHandshake ==
  /\ loop_pc = "none" /\ inbox # <<>>
  /\ LET snapshot == Head(inbox)
         v == VersionTuple(DictGet(DictGet(snapshot, JStr("info")),
                                   JStr("version"))[2])
     IN /\ version' = v
        /\ data' = Updatable(snapshot, TupleLess(v, <<8, 3>>), Later(data))
        /\ snapshot0' = data'
  /\ inbox' = Tail(inbox) /\ nread' = nread + 1
  /\ loop_pc' = "recv"
  /\ UNCHANGED <<ws, connection_state, connected_uri, conf, call, cb_idx,
                 sent, trace, harness, aux>>

\* the receive loop reads a frame and _process_message passes a list or a
\* str to do_update (fahclient.py lines 123-124, 104-109)
ClientRecv ==
  /\ loop_pc = "recv" /\ inbox # <<>>
  /\ LET frame == Head(inbox)
     IN data' = IF should_process_updates /\ (IsList(frame) \/ IsStr(frame))
                THEN do_update(data, frame, Later(data)).self
                ELSE data
  /\ inbox' = Tail(inbox) /\ nread' = nread + 1
  /\ UNCHANGED <<ws, connection_state, version, connected_uri, conf, call,
                 loop, sent, hist, harness, aux>>

NextMock == ServerApply \/ ClientJoin \/ ClientHandshake \/ ClientRecv

SpecMock == InitMock /\ [][NextMock]_vars

\* ------------------------------------------------------------------------
\* Reference definitions used by the properties
\* ------------------------------------------------------------------------
\* the document after the first n frames of msgs have been applied to u0 in
\* order, each update instruction by Updatable.do_update (as
\* test_real_data_with_final_state replays a capture)
RECURSIVE MirrorOf(_, _, _, _)
MirrorOf(u0, msgs, n, track) ==
  IF n = 0 THEN u0
  ELSE LET m == MirrorOf(u0, msgs, n - 1, track)
           d == json_loads(msgs[n])
       IN IF track /\ d.ok /\ IsList(d.value)
          THEN do_update(m, d.value, 1).self
          ELSE m

\* the path of the last do_update call as the call uses it, and its value
CallKeys ==
  [i \in 1..(Len(upd[2]) - 1) |->
     IF pre.compat_mode THEN clean_key(upd[2][i]) ELSE upd[2][i]]
CallValue == upd[2][Len(upd[2])]
IsCall == tape # <<>> /\ IsList(upd) /\ Len(upd[2]) >= 2

\* the object that exists in doc at keys[1..n] (ok = FALSE: none; a list
\* index -1 before the last key appends a new container)
RECURSIVE Reach(_, _, _, _)
Reach(obj, keys, i, n) ==
  IF i > n THEN [ok |-> TRUE, obj |-> obj]
  ELSE IF (IsList(obj) /\ keys[i] = JInt(-1)) \/ ~CanGet(obj, keys[i])
  THEN [ok |-> FALSE, obj |-> JNull]
  ELSE Reach(GetItem(obj, keys[i]), keys, i + 1, n)

\* the final container of the last do_update call, before and after it
Before == Reach(pre.data, CallKeys, 1, Len(CallKeys) - 1)
After == Reach(state.data, CallKeys, 1, Len(CallKeys) - 1)
FinalKey == CallKeys[Len(CallKeys)]

\* new differs from old only at keys[i] and, below it, along keys
RECURSIVE OffPathSame(_, _, _, _)
OffPathSame(old, new, keys, i) ==
  LET key == keys[i]
      last == i = Len(keys)
  IN CASE is_dict(old) ->
            /\ is_dict(new)
            /\ (DOMAIN new[2]) \subseteq ((DOMAIN old[2]) \cup {DictKey(key)})
            /\ \A x \in (DOMAIN old[2]) \ {DictKey(key)} :
                 x \in DOMAIN new[2] /\ new[2][x] = old[2][x]
            /\ (~last /\ DictHas(old, key) /\ DictHas(new, key))
                 => OffPathSame(DictGet(old, key), DictGet(new, key), keys,
                                i + 1)
       [] IsList(old) ->
            LET len == ListLen(old)
                grows == key[2] \in {-1, -2} \/ key[2] >= len
                p == Pos(len, key[2])
            IN /\ IsList(new) /\ IsInt(key)
               /\ IF grows
                  THEN ListLen(new) >= len /\ SubSeq(new[2], 1, len) = old[2]
                  ELSE IF ListLen(new) = len
                  THEN /\ \A q \in (1..len) \ {p} : new[2][q] = old[2][q]
                       /\ ~last => OffPathSame(old[2][p], new[2][p], keys,
                                               i + 1)
                  ELSE /\ last
                       /\ new[2] = SubSeq(old[2], 1, p - 1)
                                     \o SubSeq(old[2], p + 1, len)
       [] OTHER -> new = old

\* ------------------------------------------------------------------------
\* Properties of the replay (SpecUpd)
\* ------------------------------------------------------------------------
\* C3: after every frame of the tape, the document of the Session, fed the
\* frames through _process_message with state tracking on, equals the
\* document fed the same instructions by Updatable.do_update
C3_RoutingEqualsDoUpdate ==
  should_process_updates => data.data = state.data

C3_Witness ==
  /\ Len(tape) = MaxUpdates
  /\ data.data # snapshot0.data
  /\ \E i \in 1..Len(tape) : tape[i] = MsgDict

C5_Locality ==
  (IsCall /\ ~raised) => OffPathSame(pre.data, state.data, CallKeys, 1)

C5_Witness ==
  /\ IsCall /\ ~raised
  /\ Len(CallKeys) = 2
  /\ Before.ok /\ is_dict(Before.obj)
  /\ Cardinality(DOMAIN Before.obj[2]) > 1
  /\ Cardinality(DOMAIN pre.data[2]) > 1
  /\ state.data # pre.data

\* the value do_update stores: in compat mode the keys of the supplied
\* value are cleaned (line 150)
StoredValue ==
  IF pre.compat_mode /\ ~IsNull(CallValue)
  THEN clean_keys(CallValue) ELSE CallValue

\* the final container is a sequence L: index -1, or an index equal to or
\* beyond len(L), makes it L + [v]; index -2 makes it L + list(v)
GrowsBy(v) ==
  (IsCall /\ Before.ok /\ IsList(Before.obj)) =>
    LET L == Before.obj[2]
    IN /\ (IsInt(FinalKey) /\ (FinalKey[2] = -1 \/ FinalKey[2] >= Len(L)))
            => /\ ~raised
               /\ After.ok /\ IsList(After.obj)
               /\ After.obj[2] = Append(L, v)
       /\ (FinalKey = JInt(-2) /\ Iterable(v))
            => /\ ~raised
               /\ After.ok /\ IsList(After.obj)
               /\ After.obj[2] = L \o IterItems(v)
               /\ Len(After.obj[2]) = Len(L) + Len(IterItems(v))

C7_NullDeletes ==
  (IsCall /\ IsNull(CallValue) /\ Before.ok) =>
    /\ (is_dict(Before.obj) /\ Hashable(FinalKey)
          /\ DictHas(Before.obj, FinalKey))
         => /\ ~raised
            /\ After.ok /\ is_dict(After.obj)
            /\ DOMAIN After.obj[2]
                 = (DOMAIN Before.obj[2]) \ {DictKey(FinalKey)}
            /\ \A x \in DOMAIN After.obj[2] :
                 After.obj[2][x] = Before.obj[2][x]
    /\ (IsList(Before.obj) /\ IsInt(FinalKey) /\ FinalKey[2] >= 0
          /\ FinalKey[2] < ListLen(Before.obj))
         => /\ ~raised
            /\ After.ok /\ IsList(After.obj)
            /\ After.obj[2] =
                 [i \in 1..(ListLen(Before.obj) - 1) |->
                    IF i <= FinalKey[2] THEN Before.obj[2][i]
                    ELSE Before.obj[2][i + 1]]

C7_Witness ==
  /\ IsCall /\ IsNull(CallValue) /\ Before.ok
  /\ IsList(Before.obj) /\ ListLen(Before.obj) = 3 /\ FinalKey = JInt(1)
  /\ After.obj = JList(<<JInt(1), JInt(3)>>)

\* C8: do_update with a str, a dict or any other value that is not a list
\* leaves the object as it was and does not raise; the Session routing such
\* a frame leaves its document as it was
C8_NonListIgnored ==
  (tape # <<>> /\ ~IsList(upd)) =>
    /\ state = pre /\ ~raised
    /\ data = pre

C8_Witness ==
  /\ Len(tape) = MaxUpdates
  /\ \A i \in 1..Len(tape) : tape[i] \in {MsgPing, MsgDict, MsgNumber}
  /\ tape[Len(tape)] = MsgDict
  /\ tape[1] = MsgPing

\* ------------------------------------------------------------------------
\* Properties of the Session (Spec)
\* ------------------------------------------------------------------------
\* the frames the receive loop has finished with: all it read, but the one
\* whose observers it is still running
FramesRead == nread - 1
FramesDone == IF loop_pc = "in_callback" THEN FramesRead - 1 ELSE FramesRead
FrameEvents == {"route", "undecodable"}
ObserverEnds == {"end", "raise"}
EventsOf(k) == SelectSeq(trace, LAMBDA e : e[2] = k)

\* the document of the Session is the snapshot with the frames 1..k applied
MirrorsFrames(k) ==
  data.data = MirrorOf(snapshot0, Tail(sent), k, should_process_updates).data

\* C1: the receive loop takes the frames in arrival order, one at a time:
\* frame k is routed before any observer is invoked for it, every observer
\* invoked for frame k has returned before anything is done for a later
\* frame, and while the observers of frame k run the document is the
\* snapshot with exactly the frames 1..k applied
C1_FramesInArrivalOrder ==
  /\ \A p \in 1..Len(trace) :
       /\ \A q \in p..Len(trace) : trace[p][2] <= trace[q][2]
       /\ trace[p][1] \in FrameEvents
            => /\ trace[p][3] = sent[trace[p][2] + 1]
               /\ Len(SelectSeq(SubSeq(trace, 1, p),
                                LAMBDA e : e[1] \in FrameEvents)) = trace[p][2]
       /\ trace[p][1] \in {"begin"} \cup ObserverEnds
            => \E q \in 1..(p - 1) :
                 trace[q][1] = "route" /\ trace[q][2] = trace[p][2]
       /\ (trace[p][1] = "begin" /\ p < Len(trace))
            => /\ trace[p + 1][1] \in ObserverEnds
               /\ trace[p + 1][2] = trace[p][2]
               /\ trace[p + 1][3] = trace[p][3]
  /\ loop_pc # "none" => MirrorsFrames(FramesRead)

C1_Witness ==
  /\ loop_pc = "in_callback" /\ FramesRead = 2
  /\ should_process_updates
  /\ \E p \in 1..Len(trace) : trace[p] = <<"end", 1, "sleeper">>
  /\ data.data # snapshot0.data
  /\ sent[2] # sent[3]

\* the update instructions among the frames, and whether do_update raises
\* on frame k
IsInstruction(m) == json_loads(m).ok /\ IsList(json_loads(m).value)
RaisesOn(k) ==
  /\ IsInstruction(sent[k + 1])
  /\ do_update(MirrorOf(snapshot0, Tail(sent), k - 1, TRUE),
               json_loads(sent[k + 1]).value, 1).raised

\* C2: an update instruction on which do_update raises does not stop the
\* synchronization: the receive loop ends only when the transport is
\* closed, and every instruction read after the malformed one is applied
\* to the document and delivered to every registered observer
C2_MalformedDoesNotStop ==
  /\ loop_pc \in {"closing", "done"}
       => trace # <<>> /\ trace[Len(trace)][1] = "closed"
  /\ (should_process_updates /\ loop_pc # "none") =>
       \A i \in 1..FramesRead :
         RaisesOn(i) =>
           /\ MirrorsFrames(FramesRead)
           /\ \A k \in i..FramesDone :
                IsInstruction(sent[k + 1]) =>
                  LET delivered ==
                        SelectSeq(EventsOf(k), LAMBDA e : e[1] = "begin")
                  IN /\ EventsOf(k)[1] = <<"route", k, sent[k + 1]>>
                     /\ Len(delivered) = Len(callbacks)
                     /\ \A c \in 1..Len(callbacks) :
                          delivered[c][3] = callbacks[c]

C2_Witness ==
  /\ should_process_updates /\ loop_pc = "recv" /\ FramesRead = 2
  /\ RaisesOn(1) /\ ~RaisesOn(2) /\ IsInstruction(sent[3])
  /\ callbacks # <<>>
  /\ data.data # MirrorOf(snapshot0, Tail(sent), 1, TRUE).data

\* C9 (as claimed): a connect() that failed to open the transport, or in
\* whose handshake read an exception occurred, has returned normally with
\* the document empty, the version (0,0,0) and a label describing the
\* failure
C9_ConnectFailureIsRecovered ==
  (op.name = "connect" /\ op.at \in {"open", "handshake"}) =>
    /\ op.status = "returned"
    /\ data.data = EmptyDict
    /\ version = <<0, 0, 0>>
    /\ connection_state
         \in {"Unreachable", "Invalid address", "<class 'Exception'>"}

\* C10: connect() on a connected Session returns at once: it opens no
\* transport, reads no frame, starts no receive loop and leaves the
\* document, the version and the state label as they were
C10_ConnectWhenConnectedIsNoOp ==
  [][(ncalls' = ncalls + 1 /\ op'.name = "connect" /\ is_connected)
       => /\ op'.status = "returned"
          /\ UNCHANGED <<sess, conf, caller_pc, loop, net, hist>>]_vars

C10_Witness ==
  /\ op = Ended("connect", "returned", "already")
  /\ ncalls = 2 /\ is_connected
  /\ loop_pc = "recv" /\ inbox # <<>>

\* C11: the document is empty until the handshake; the handshake replaces
\* it, once, by the snapshot frame read in connect(); after that it changes
\* only by an update instruction the receive loop applies while the
\* transport is open
C11_DocumentLifecycle ==
  /\ [](loop_pc = "none" => data.data = EmptyDict)
  /\ [][/\ loop_pc # "none" => loop_pc' # "none"
        /\ data'.data # data.data =>
             \/ /\ loop_pc = "none" /\ loop_pc' = "recv"
                /\ caller_pc = "handshake" /\ nread = 0
                /\ LET h == ParseSnapshot(Head(inbox))
                   IN data'.data = Updatable(h.snapshot, h.old, 0).data
             \/ /\ loop_pc = "recv" /\ loop_pc' # "none"
                /\ is_connected /\ should_process_updates
                /\ IsInstruction(Head(inbox))
                /\ data'.data
                     = do_update(data, json_loads(Head(inbox)).value,
                                 0).self.data]_vars

C11_Witness ==
  /\ loop_pc = "done" /\ op = Ended("close", "returned", "none")
  /\ snapshot0.data # EmptyDict
  /\ data.data # snapshot0.data

\* a step of a close() the caller awaits: the call, or its return
CloseStep ==
  \/ ncalls' = ncalls + 1 /\ op'.name = "close"
  \/ caller_pc = "closing" /\ caller_pc' = "idle"

\* C12: close() raises nothing in any state and leaves the document, the
\* version and the observers alone; when it returns the label is
\* "Disconnected" and the transport is not open; on a Session that is
\* closed already (transport absent or closed, no connected uri) it changes
\* nothing but the label, which is "Disconnected" again when it returns
C12_CloseIdempotent ==
  [][CloseStep =>
       /\ op'.status # "raised"
       /\ UNCHANGED <<data, version, conf>>
       /\ op'.status = "returned" =>
            /\ connection_state' = "Disconnected"
            /\ ~is_connected'
            /\ ws' \in {"None", "CLOSED"}
            /\ connected_uri' = "None"
       /\ (ws \in {"None", "CLOSED"} /\ connected_uri = "None") =>
            /\ UNCHANGED <<ws, connected_uri>>
            /\ connection_state' \in {"Disconnecting", "Disconnected"}]_vars

\* two close() calls on a Session that never connected
C12_Witness ==
  /\ ncalls = 2 /\ op = Ended("close", "returned", "none")
  /\ ws = "None" /\ data.last_update = 0
  /\ connection_state = "Disconnected"

\* C13 (as claimed): once close() has been called on the Session, in
\* whatever state, is_connected is never true again
C13_ClosedIsTerminal ==
  close_called => ~is_connected

\* C14: after close() has been called on a Session whose receive loop was
\* started, the loop eventually ends; and no step taken while the loop
\* exists opens the transport again
C14_LoopTerminatesAfterClose ==
  /\ (op.name = "close" /\ loop_pc # "none") ~> (loop_pc = "done")
  /\ [][(loop_pc # "none" /\ ~is_connected) => ~is_connected']_vars

C14_Witness ==
  /\ op = Ended("close", "returned", "none") /\ close_called
  /\ loop_pc = "done" /\ nread = 3
  /\ trace[Len(trace)][1] = "closed"
  /\ ws = "CLOSED"

\* the receive loop has been cancelled
LoopCancelledStates == {"cancel_closing", "cancelled"}
CancelArrives ==
  /\ Len(trace') > Len(trace)
  /\ trace'[Len(trace')][1] = "cancelled"

\* C15: a connect() cancelled while it opens the transport raises, with
\* the document and the version reset; a receive loop in which a
\* cancellation arrives reads no further frame and changes the document no
\* more, and when it ends by raising the transport is not open (and the
\* label is "Disconnected" when the cancellation arrived in recv() or in
\* an observer)
C15_CancellationReraised ==
  [][/\ (caller_pc = "opening" /\ op'.at = "cancelled") =>
          /\ op'.status = "raised"
          /\ data' = Updatable(EmptyDict, FALSE, Later(data))
          /\ version' = <<0, 0, 0>>
     /\ op'.at = "cancelled" => op'.status = "raised"
     /\ CancelArrives => loop_pc' \in LoopCancelledStates
     /\ loop_pc \in LoopCancelledStates =>
          /\ loop_pc' \in LoopCancelledStates
          /\ UNCHANGED <<data, nread, trace>>
     /\ loop_pc = "cancelled" => loop_pc' = "cancelled"
     /\ loop_pc' = "cancelled" => ~is_connected'
     /\ (loop_pc = "cancel_closing" /\ loop_pc' = "cancelled") =>
          connection_state' = "Disconnected"]_vars

C15_Witness ==
  /\ loop_pc = "cancelled" /\ connection_state = "Disconnected"
  /\ nread = 2 /\ data.data # snapshot0.data
  /\ trace[Len(trace)] = <<"cancelled", 2, "">>
  /\ trace[Len(trace) - 1][1] = "raise"

\* the caller calls send()
SendStarts == ncalls' = ncalls + 1 /\ op'.name = "send"

\* C16: send() on a Session that is not connected returns at once: no
\* write is started, nothing is raised, and the document, the version, the
\* label, the transport and the observers are as they were
C16_SendWhenNotConnectedIsNoOp ==
  [][(SendStarts /\ ~is_connected) =>
       /\ op'.status = "returned"
       /\ UNCHANGED <<sess, conf, caller_pc, loop, net, hist, out>>]_vars

C16_Witness ==
  /\ op = Ended("send", "returned", "not connected")
  /\ payload.given = PayCmd
  /\ ws = "CLOSED" /\ loop_pc = "done" /\ out = <<>>

\* the time values send() may stamp a message with
UtcStamps == {JStr(ZuluStamp(IsoFormat(t))) : t \in Clock}

\* C17: send() of a dict leaves the caller's dict as it was; the object it
\* serializes is the caller's dict when that has a "time" field, and
\* otherwise the caller's fields and a UTC "time" field; what is written to
\* the transport is the JSON text of that object
C17_SendDoesNotMutatePayload ==
  [][/\ (SendStarts /\ is_dict(payload'.given)) =>
          /\ payload'.now = payload'.given
          /\ is_connected =>
               LET g == payload'.given
                   m == payload'.msg
               IN IF DictHas(g, JStr("time")) THEN m = g
                  ELSE /\ is_dict(m)
                       /\ DOMAIN m[2] = DOMAIN g[2] \cup {"time"}
                       /\ \A k \in DOMAIN g[2] : m[2][k] = g[2][k]
                       /\ m[2]["time"] \in UtcStamps
     /\ out' # out =>
          /\ out' = Append(out, payload.text)
          /\ UNCHANGED payload
          /\ is_dict(payload.given) => payload.text = json_dumps(payload.msg)
    ]_vars

C17_Witness ==
  /\ op = Ended("send", "returned", "written")
  /\ payload.given = PayCmd /\ payload.now = PayCmd
  /\ out = <<"{\"cmd\": \"pause\", \"time\": \"1970-01-01T00:00:01Z\"}">>

\* C18: a write of send() that raises ConnectionClosed makes send() close
\* the Session and raise: when send() raises the label is "Disconnected"
\* and the transport is not open, and nothing was written
C18_SendFailureIsConnectionLoss ==
  [][/\ (op.name = "send" /\ op.status = "running"
           /\ op'.status = "raised") =>
          /\ connection_state' = "Disconnected"
          /\ ~is_connected'
          /\ UNCHANGED out
     /\ (caller_pc = "sending" /\ caller_pc' # "sending" /\ ~is_connected)
          => /\ caller_pc' = "send closing"
             /\ connection_state' = "Disconnecting"
     /\ (caller_pc = "send closing" /\ caller_pc' # "send closing")
          => op' = Ended("send", "raised", "write")]_vars

C18_Witness ==
  /\ op = Ended("send", "raised", "write")
  /\ payload.given = PayCmd
  /\ connection_state = "Disconnected" /\ ws = "CLOSED" /\ out = <<>>

\* the number of observers invoked for frame k among the first p events
Invoked(k, p) ==
  Len(SelectSeq(SubSeq(trace, 1, p),
                LAMBDA e : e[1] = "begin" /\ e[2] = k))

\* C19: when an observer raises while frame k is delivered, the observer
\* registered after it is invoked for frame k next; and the loop goes on:
\* every frame read has been routed, and the loop has ended only when
\* recv() raised ConnectionClosed
C19_ObserverIsolation ==
  /\ \A p \in 1..Len(trace) :
       (trace[p][1] = "raise" /\ Invoked(trace[p][2], p) < Len(callbacks))
         => /\ p < Len(trace)
            /\ trace[p + 1]
                 = <<"begin", trace[p][2],
                     callbacks[Invoked(trace[p][2], p) + 1]>>
  /\ \A k \in 1..FramesRead :
       \E p \in 1..Len(trace) :
         trace[p][1] \in FrameEvents /\ trace[p][2] = k
  /\ loop_pc \in {"closing", "done"} =>
       \E p \in 1..Len(trace) : trace[p][1] = "closed"

C19_Witness ==
  \E p \in 1..Len(trace) :
    /\ trace[p] = <<"raise", 1, "faulty">>
    /\ trace[p + 1] = <<"begin", 1, "printer">>
    /\ \E q \in (p + 2)..Len(trace) : trace[q] = <<"end", 2, "printer">>

\* the number of registrations of observer o in the list q
Registrations(q, o) == Len(SelectSeq(q, LAMBDA c : c = o))

\* C20: the observers are a list: register_callback appends, also an
\* observer that is registered already; unregister_callback of a
\* registered observer removes one registration of it and keeps the others
\* in their order; and a frame is delivered to the registrations in the
\* order of the list, once for each registration
C20_ObserversInRegistrationOrder ==
  [][/\ (op' # op /\ op'.name = "register") =>
          callbacks' = Append(callbacks, op'.at)
     /\ (op' # op /\ op'.name = "unregister"
           /\ Registrations(callbacks, op'.at) > 0) =>
          /\ op'.status = "returned"
          /\ Len(callbacks') = Len(callbacks) - 1
          /\ Registrations(callbacks', op'.at)
               = Registrations(callbacks, op'.at) - 1
          /\ \E i \in 1..Len(callbacks) :
               callbacks' = SubSeq(callbacks, 1, i - 1)
                              \o SubSeq(callbacks, i + 1, Len(callbacks))
     /\ (Len(trace') > Len(trace)
           /\ trace'[Len(trace) + 1][1] = "route") =>
          LET k == trace'[Len(trace) + 1][2]
              begun == SelectSeq(SubSeq(trace', Len(trace) + 2, Len(trace')),
                                 LAMBDA e : e[1] = "begin")
          IN /\ Len(begun) = Len(callbacks)
             /\ \A i \in 1..Len(callbacks) :
                  begun[i] = <<"begin", k, callbacks[i]>>]_vars

C20_Witness ==
  /\ op = Ended("unregister", "returned", "printer")
  /\ callbacks = <<"printer">>
  /\ Invoked(1, Len(trace)) = 2
  /\ FramesRead = 1 /\ loop_pc = "recv"

\* ------------------------------------------------------------------------
\* Delivery of frames to the observers
\* ------------------------------------------------------------------------
\* the observers invoked for frame k, in the order of their invocation
Delivered(k) ==
  SelectSeq(EventsOf(k), LAMBDA e : e[1] = "begin")

\* C21 (as claimed): every frame the receive loop has read and finished
\* with has been delivered to every registered observer, in the order of
\* registration, whether or not it decoded as JSON
C21_DeliveredRegardlessOfDecoding ==
  \A k \in 1..FramesDone :
    /\ Len(Delivered(k)) = Len(callbacks)
    /\ \A c \in 1..Len(callbacks) : Delivered(k)[c][3] = callbacks[c]

\* the frames read by the loop that did not decode as JSON
Undecodable(k) == ~json_loads(sent[k + 1]).ok

\* C22: a frame that is not valid JSON does not end the receive loop: the
\* step that reads it leaves the document, the transport and the state
\* label as they were and the loop at recv(); and every frame read after it
\* has been routed in its turn, the document being the snapshot with all
\* frames read applied
C22_BadFrameDoesNotStopLoop ==
  /\ [][(Len(trace') > Len(trace)
           /\ trace'[Len(trace) + 1][1] = "undecodable") =>
          /\ data' = data /\ version' = version
          /\ ws' = ws /\ connection_state' = connection_state
          /\ loop_pc = "recv" /\ loop_pc' = "recv"
          /\ nread' = nread + 1]_vars
  /\ [](\A k \in 1..FramesRead :
          Undecodable(k) =>
            /\ MirrorsFrames(FramesRead)
            /\ \A j \in k..FramesRead :
                 \E p \in 1..Len(trace) :
                   /\ trace[p][2] = j /\ trace[p][3] = sent[j + 1]
                   /\ trace[p][1] = IF Undecodable(j) THEN "undecodable"
                                    ELSE "route")

C22_Witness ==
  /\ should_process_updates /\ loop_pc = "recv" /\ FramesRead = 2
  /\ Undecodable(1) /\ sent[3] = MsgAppend
  /\ callbacks # <<>> /\ Invoked(2, Len(trace)) = Len(callbacks)
  /\ data.data # snapshot0.data
  /\ data.data = MirrorOf(snapshot0, Tail(sent), 2, TRUE).data

\* C23 (as claimed): once the handshake has succeeded, the observers
\* registered before connect() have been invoked, in the order of
\* registration, for the snapshot frame (frame 0) and for every frame after
\* it that decoded and that the receive loop has finished with
C23_SnapshotDeliveredToObservers ==
  loop_pc # "none" =>
    \A k \in 0..FramesDone :
      json_loads(sent[k + 1]).ok =>
        /\ Len(Delivered(k)) = Len(callbacks)
        /\ \A c \in 1..Len(callbacks) : Delivered(k)[c][3] = callbacks[c]

\* ------------------------------------------------------------------------
\* Properties of munged_group_name (SpecGroup)
\* ------------------------------------------------------------------------
\* the call of munged_group_name that was made: the group asked for, the
\* group listing of the snapshot, and whether both the name asked for and
\* the name with "/" before it are listed
Munged == fcall.fn = "munged_group_name" /\ fcall.ret # Pending
Asked == fcall.args[1]
Listed == GroupListing(fcall.args[2])
Ambiguous ==
  /\ IsStr(Asked) /\ Len(Asked[2]) > 0 /\ ~IsNull(fcall.args[2])
  /\ Asked[2] \in Listed /\ ("/" \o Asked[2]) \in Listed

\* C24: munged_group_name for a non-empty group name of which the snapshot
\* lists both the name and the name with "/" before it raises the
\* ambiguity error and returns nothing
C24_AmbiguousGroupRaises ==
  (Munged /\ Ambiguous) =>
    fcall.ret = Raised("Exception: Ambiguous group name")

C24_Witness ==
  /\ Munged /\ Ambiguous /\ Asked = JStr("gpu") /\ Listed = {"gpu", "/gpu"}
  /\ fcall.ret.raised = "Exception: Ambiguous group name"

\* C25: munged_group_name for a group that is not None and a snapshot
\* without the ambiguity returns a listed name or raises
\* FahClientGroupDoesNotExist: the name asked for when it is listed, the
\* name with "/" before it when the name asked for is not empty and only
\* that one is listed, and for "" the name "" when it is listed and
\* nothing else
C25_ResolvesToListedName ==
  (Munged /\ IsStr(Asked) /\ ~IsNull(fcall.args[2]) /\ ~Ambiguous) =>
    LET g == Asked[2]
        g0 == "/" \o g
        ret == fcall.ret
    IN /\ ret.raised \in {"", "FahClientGroupDoesNotExist"}
       /\ ret.raised = "" => IsStr(ret.value) /\ ret.value[2] \in Listed
       /\ g \in Listed => ret = Returned(JStr(g))
       /\ (Len(g) > 0 /\ g \notin Listed /\ g0 \in Listed)
            => ret = Returned(JStr(g0))
       /\ (g \notin Listed /\ (Len(g) = 0 \/ g0 \notin Listed))
            => ret = Raised("FahClientGroupDoesNotExist")
       /\ g = "" => ret \in {Returned(JStr("")),
                             Raised("FahClientGroupDoesNotExist")}

C25_Witness ==
  /\ Munged /\ Asked = JStr("gpu") /\ ~IsNull(fcall.args[2])
  /\ Listed = {"", "/gpu"}
  /\ fcall.ret = Returned(JStr("/gpu"))

\* ------------------------------------------------------------------------
\* Properties of send_command (SpecCmd)
\* ------------------------------------------------------------------------
\* a step in which the caller calls send_command, the command it passes,
\* and whether the peer is older than 8.3
CommandStarts ==
  ncalls' = ncalls + 1 /\ op'.name \in {"send_command", "send"}
Cmd == fcall.args[1][2]
StateCommands == {"fold", "finish", "pause"}
PreGrouping == TupleLess(version, <<8, 3>>)
\* the group of the Session is listed by the snapshot under two names, or
\* under none
GroupAmbiguous ==
  /\ Len(group[2]) > 0
  /\ group[2] \in GroupListing(data.data)
  /\ ("/" \o group[2]) \in GroupListing(data.data)
GroupMissing ==
  /\ group[2] \notin GroupListing(data.data)
  /\ Len(group[2]) = 0 \/ ("/" \o group[2]) \notin GroupListing(data.data)

\* C26: send_command of a state command to a peer of 8.3 or later, by a
\* Session whose group is ambiguous or missing in the snapshot, raises in
\* the step of the call: nothing is passed to send(), nothing is written
\* and no write is pending; and whatever is written with a group field
\* names a group the snapshot lists
C26_GroupErrorBeforeAnyWrite ==
  [][/\ (CommandStarts /\ Cmd' \in StateCommands /\ ~PreGrouping
           /\ IsStr(group) /\ (GroupAmbiguous \/ GroupMissing)) =>
          /\ op'.name = "send_command" /\ op'.status = "raised"
          /\ op'.at = IF GroupAmbiguous
                      THEN "Exception: Ambiguous group name"
                      ELSE "FahClientGroupDoesNotExist"
          /\ out' = out /\ payload' = payload /\ caller_pc' = "idle"
     /\ (out' # out /\ is_dict(payload.given)
           /\ DictHas(payload.given, JStr("group"))) =>
          DictGet(payload.given, JStr("group"))[2]
            \in GroupListing(data.data)]_vars

C26_Witness ==
  /\ is_connected /\ group = JStr("gpu") /\ ~PreGrouping
  /\ fcall.fn = "send_command" /\ Cmd = "pause"
  /\ op = Ended("send_command", "raised", "Exception: Ambiguous group name")
  /\ out = <<>> /\ caller_pc = "idle"

\* C29: send_command(cmd) with cmd one of fold, finish, pause passes to
\* send(), for a peer older than 8.3, {"cmd": cmd} with unpause for fold
\* and no group, and for a peer of 8.3 or later {"state": cmd, "cmd":
\* "state"} with a "group" item exactly when the Session has a group; on a
\* connected Session the message is then written, stamped with the time;
\* any other cmd raises FahClientUnknownCommand and nothing is passed to
\* send() or written
C29_CommandShapes ==
  [][/\ (CommandStarts /\ Cmd' \notin StateCommands) =>
          /\ op' = Ended("send_command", "raised", "FahClientUnknownCommand")
          /\ out' = out /\ payload' = payload /\ caller_pc' = "idle"
     /\ (CommandStarts /\ Cmd' \in StateCommands /\ PreGrouping) =>
          /\ op'.name = "send"
          /\ payload'.given =
               JDict([cmd |-> JStr(IF Cmd' = "fold" THEN "unpause"
                                   ELSE Cmd')])
     /\ (CommandStarts /\ Cmd' \in StateCommands /\ ~PreGrouping) =>
          /\ IsNull(group) => op'.name = "send"
          /\ op'.name = "send" =>
               LET msg == payload'.given[2]
               IN /\ DOMAIN msg = {"state", "cmd"}
                                    \cup (IF IsNull(group) THEN {}
                                          ELSE {"group"})
                  /\ msg["state"] = JStr(Cmd') /\ msg["cmd"] = JStr("state")
     /\ (CommandStarts /\ op'.name = "send") =>
          /\ out' = out
          /\ (is_connected /\ op'.at # "debug") =>
               /\ caller_pc' = "sending"
               /\ payload'.msg \in
                    {DictSet(payload'.given, JStr("time"), t) :
                       t \in UtcStamps}
               /\ payload'.text = json_dumps(payload'.msg)
     /\ out' # out => out' = Append(out, payload.text)]_vars

C29_Witness ==
  /\ version = <<8, 4>> /\ group = JStr("gpu")
  /\ payload.given = JDict([state |-> JStr("fold"), cmd |-> JStr("state"),
                            group |-> JStr("/gpu")])
  /\ op = Ended("send", "returned", "written")
  /\ \E t \in Clock :
       out = <<"{\"state\": \"fold\", \"cmd\": \"state\", \"group\": \"/gpu\", \"time\": \""
                 \o ZuluStamp(IsoFormat(t)) \o "\"}">>

\* ------------------------------------------------------------------------
\* Properties of peer parsing (SpecPeer)
\* ------------------------------------------------------------------------
\* a Session constructed from a peer string: the string, the position of
\* its first "/", its host and port texts, and the uri and the group of
\* the Session
Parsed ==
  /\ fcall.fn = "FahClient" /\ fcall.ret # Pending /\ fcall.ret.raised = ""
  /\ IsStr(fcall.args[1])
PeerText == fcall.args[1][2]
FirstSlash == Find(PeerText, "/")
HostPort ==
  Strip(IF FirstSlash = 0 THEN PeerText
        ELSE SubSeq(PeerText, 1, FirstSlash - 1))
HostText ==
  IF Contains(HostPort, ":")
  THEN SubSeq(HostPort, 1, Find(HostPort, ":") - 1) ELSE HostPort
PortText ==
  IF Contains(HostPort, ":")
  THEN SubSeq(HostPort, Find(HostPort, ":") + 1, Len(HostPort)) ELSE ""
SessionUri == fcall.ret.value[1][2]
SessionGroup == fcall.ret.value[2]
\* the uri after "ws://" and the host
UriPortAndPath ==
  LET rest == SubSeq(SessionUri, 6, Len(SessionUri))
  IN SubSeq(rest, Find(rest, ":") + 1, Len(rest))

\* C27: a Session constructed from a peer string without "/" has no group
\* (None); from one with a "/" its group is the text after the first "/"
\* ("" for "/", "rg2" for "/rg2", "/" for "//", "/name" for "//name");
\* the hosts "", "." and "localhost" give the uri of localhost; the uri
\* has the port of the peer string when it has one (other than 0), 7396
\* otherwise, and then the path /api/websocket
C27_PeerParsing ==
  Parsed =>
    /\ group = SessionGroup
    /\ FirstSlash = 0 => SessionGroup = JNull
    /\ FirstSlash > 0 =>
         SessionGroup = JStr(SubSeq(PeerText, FirstSlash + 1, Len(PeerText)))
    /\ PeerText = "/" => SessionGroup = JStr("")
    /\ PeerText = "/rg2" => SessionGroup = JStr("rg2")
    /\ PeerText = "//" => SessionGroup = JStr("/")
    /\ PeerText = "//name" => SessionGroup = JStr("/name")
    /\ HostText \in {"", ".", "localhost"} =>
         StartsWith(SessionUri, "ws://localhost:")
    /\ LET port == IF IsDigits(PortText) /\ ToInt(PortText) # 0
                   THEN ToInt(PortText) ELSE 7396
       IN StartsWith(UriPortAndPath, ToString(port) \o "/api/websocket")

C27_Witness ==
  /\ Parsed /\ PeerText = ".:1234//name"
  /\ SessionUri = "ws://localhost:1234/api/websocket/name"
  /\ group = JStr("/name")

\* ------------------------------------------------------------------------
\* Properties of hostname resolution (SpecResolve)
\* ------------------------------------------------------------------------
\* connect() has called ipv4_uri_for_uri: the host of the peer string, the
\* host of self._uri (the peer string validated), the names that resolve,
\* the names resolve_ipv4 was called with, and the host of the uri returned
Resolved == fcall.fn = "ipv4_uri_for_uri"
TypedHost ==
  LET p == fcall.args[1][2]
  IN IF Contains(p, ":") THEN SubSeq(p, 1, Find(p, ":") - 1) ELSE p
ValidatedHost == UrlHostname(UrlNetloc(fcall.args[2][2]))[2]
Resolvable == fcall.args[3]
Probes == fcall.ret.value.probes
UsedHost == UrlHostname(UrlNetloc(fcall.ret.value.uri[2]))[2]
SingleLabel(host) == ~Contains(host, ".") /\ host # "localhost"
NoProbeResolves ==
  \A i \in 1..Len(Probes) : ~Resolves(Probes[i], Resolvable)
ResolutionReturns ==
  fcall.ret.raised = "" /\ ~(op.status = "raised" /\ op.at = "resolve")

\* C28 (as claimed): resolution does not make connect() fail; the host of
\* the peer string is probed; when it does not resolve and is a single
\* label, one retry is made with ".local" appended, and no retry is made
\* for any other host; when no probe resolves the uri keeps the host of
\* the peer string
C28_RetryWithSuffixAppended ==
  Resolved =>
    /\ ResolutionReturns
    /\ Probes[1] = TypedHost
    /\ Len(Probes) = 2 <=>
         (SingleLabel(TypedHost) /\ ~Resolves(TypedHost, Resolvable))
    /\ Len(Probes) = 2 => Probes[2] = TypedHost \o ".local"
    /\ Len(Probes) \in {1, 2}
    /\ NoProbeResolves => UsedHost = TypedHost

\* C28 (amended): resolution does not make connect() fail; the host probed
\* first is the validated host, which has ".local" appended when the host
\* of the peer string is a single label; one retry is made, with ".local"
\* removed, exactly when the first probe fails and the validated host ends
\* in ".local"; the uri gets the address of the first probe that resolves,
\* and keeps the validated host when none does; port and path are kept
C28_RetryWithSuffixRemoved ==
  Resolved =>
    /\ ResolutionReturns
    /\ ValidatedHost = IF SingleLabel(TypedHost) THEN TypedHost \o ".local"
                       ELSE TypedHost
    /\ Probes[1] = ValidatedHost
    /\ Len(Probes) = 2 <=>
         (EndsWith(ValidatedHost, ".local")
            /\ ~Resolves(ValidatedHost, Resolvable))
    /\ Len(Probes) = 2 => Probes[2] \o ".local" = ValidatedHost
    /\ Len(Probes) \in {1, 2}
    /\ NoProbeResolves => UsedHost = ValidatedHost
    /\ ~NoProbeResolves =>
         LET i == CHOOSE j \in 1..Len(Probes) :
                    /\ Resolves(Probes[j], Resolvable)
                    /\ \A h \in 1..(j - 1) : ~Resolves(Probes[h], Resolvable)
         IN UsedHost = resolve_ipv4(Probes[i])
    /\ UrlPort(UrlNetloc(fcall.ret.value.uri[2]))
         = UrlPort(UrlNetloc(fcall.args[2][2]))
    /\ UrlPath(fcall.ret.value.uri[2]) = UrlPath(fcall.args[2][2])

C28_Witness ==
  /\ Resolved /\ fcall.args[1] = JStr("host:1234")
  /\ Probes = <<"host.local", "host">> /\ NoProbeResolves
  /\ fcall.ret.value.uri = JStr("ws://host.local:1234/api/websocket")
  /\ caller_pc = "handshake" /\ is_connected

\* ------------------------------------------------------------------------
\* Properties of the document's writers (SpecDoc)
\* ------------------------------------------------------------------------
\* a step of the caller, and the operations of the caller other than
\* connect()
CallerStep ==
  \/ op' # op \/ caller_pc' # caller_pc \/ ncalls' # ncalls
  \/ callbacks' # callbacks
CallerOps ==
  {"send", "send_command", "create_group", "close", "register",
   "unregister"} \cup Accessors
\* the step is the receive loop applying the frame it read to the document
LoopApplies ==
  /\ loop_pc = "recv" /\ inbox # <<>> /\ nread' = nread + 1
  /\ should_process_updates /\ json_loads(Head(inbox)).ok
  /\ data' = do_update(data, json_loads(Head(inbox)).value, Later(data)).self
  /\ Len(trace') > Len(trace)
  /\ trace'[Len(trace) + 1] = <<"route", nread, Head(inbox)>>
  /\ UNCHANGED <<call, conf>>

\* C30: once the handshake has seeded the document, a step changes
\* self.data only when it is the receive loop applying an update it read;
\* every step of send, send_command, create_group, close,
\* register_callback, unregister_callback and of the accessors groups,
\* version, state and is_connected leaves self.data as it was
C30_SingleMutator ==
  [][/\ (Seeded /\ data' # data) => LoopApplies
     /\ (CallerStep /\ op'.name \in CallerOps) => data' = data]_vars

\* create_group found no group "cpu" and wrote its message; the peer's
\* update then added the group, the receive loop applied it and the
\* observer registered meanwhile was invoked
C30_Witness ==
  /\ Seeded /\ sent = <<SnapGroups, MsgGroupAdd>> /\ nread = 2
  /\ fcall.fn = "create_group" /\ fcall.args = <<JStr(" cpu ")>>
  /\ fcall.ret.raised = "" /\ ~IsNull(fcall.ret.value)
  /\ op = Ended("send", "returned", "written") /\ Len(out) = 1
  /\ callbacks = <<"printer">>
  /\ "cpu" \in groups /\ "cpu" \notin GroupListing(snapshot0.data)
  /\ data # snapshot0

\* ------------------------------------------------------------------------
\* Properties of the key path (SpecPath)
\* ------------------------------------------------------------------------
\* position key is missing in the container old: a dict without the key,
\* or a list indexed at its end (its length, or -1)
MissingAt(old, key) ==
  \/ is_dict(old) /\ Hashable(key) /\ ~DictHas(old, key)
  \/ IsList(old) /\ IsInt(key) /\ (key[2] = -1 \/ key[2] = ListLen(old))
\* the value of the last do_update call as the call stores it
StoredCallValue ==
  IF pre.compat_mode /\ ~IsNull(CallValue) THEN clean_keys(CallValue)
  ELSE CallValue
\* from position i of the path on, the container new is the container old
\* with a list (next key an int) or a dict (otherwise) entered at every
\* missing position before the last key, nothing else added at that
\* position, and the last key and the value applied inside the container
\* created last
RECURSIVE CreatesAlong(_, _, _, _)
CreatesAlong(old, new, keys, i) ==
  IF i >= Len(keys) THEN TRUE
  ELSE IF MissingAt(old, keys[i])
  THEN LET made == IF IsInt(keys[i + 1]) THEN EmptyList ELSE EmptyDict
           child == IF is_dict(new) THEN DictGet(new, keys[i])
                    ELSE new[2][ListLen(new)]
       IN /\ new[1] = old[1]
          /\ IF is_dict(old)
             THEN /\ DOMAIN new[2] = (DOMAIN old[2]) \cup {DictKey(keys[i])}
                  /\ \A x \in DOMAIN old[2] : new[2][x] = old[2][x]
             ELSE /\ ListLen(new) = ListLen(old) + 1
                  /\ SubSeq(new[2], 1, ListLen(old)) = old[2]
          /\ child[1] = made[1]
          /\ CreatesAlong(made, child, keys, i + 1)
          /\ (i + 1 = Len(keys))
               => child = FinalStep(made, keys[i + 1], StoredCallValue).obj
  ELSE IF CanGet(old, keys[i])
  THEN CanGet(new, keys[i])
         /\ CreatesAlong(GetItem(old, keys[i]), GetItem(new, keys[i]), keys,
                         i + 1)
  ELSE new = old

\* C31: for every position of the key path before the last key that is
\* missing when do_update reaches it, the call leaves a container there, a
\* list when the next key is an int and a dict otherwise, holding only
\* what the rest of the path put into it
C31_CreatesMissingContainers ==
  IsCall => CreatesAlong(pre.data, state.data, CallKeys, 1)

\* ["c","a",0,"b",1] on a document without "c": a dict at "c", a list at
\* "a", a dict appended to it, and "b" set in that dict
C31_Witness ==
  /\ IsCall /\ upd = json_loads(MsgCreate).value /\ ~raised
  /\ ~DictHas(pre.data, JStr("c"))
  /\ DictGet(state.data, JStr("c"))
       = JDict("a" :> JList(<<JDict("b" :> JInt(1))>>))

\* C32: a do_update call that raises leaves the document as it was before
\* the call: no container created on the way to the failure remains
C32_FailedUpdateLeavesDocument ==
  (IsCall /\ raised) => state.data = pre.data

\* the name a dict holds a str key under (an int key or None is held under
\* a name that begins with "#")
StrName(x) == ~StartsWith(x, "#")
\* no str key of 16 characters or fewer of a dict anywhere in v has a
\* hyphen
RECURSIVE NoShortHyphenKey(_)
NoShortHyphenKey(v) ==
  IF is_dict(v)
  THEN \A x \in DOMAIN v[2] :
         /\ (StrName(x) /\ Len(x) <= 16) => ~Contains(x, "-")
         /\ NoShortHyphenKey(v[2][x])
  ELSE IF IsList(v)
  THEN \A i \in 1..Len(v[2]) : NoShortHyphenKey(v[2][i])
  ELSE TRUE
\* the first key of the last do_update call as the frame has it, a str of
\* more than 16 characters or an int
KeptKey == upd[2][1]
KeepsKey ==
  /\ IsCall /\ ~raised /\ ~IsNull(CallValue)
  /\ IsInt(KeptKey) \/ (IsStr(KeptKey) /\ Len(KeptKey[2]) > 16)

LastDeliver ==
  CHOOSE p \in 1..Len(trace) :
    /\ trace[p][1] = "deliver"
    /\ \A q \in (p + 1)..Len(trace) : trace[q][1] # "deliver"
AtBegin == trace[LastDeliver][3]
DeliveryCalls == SubSeq(trace, LastDeliver + 1, Len(trace))
CallsOf(o) == {q \in 1..Len(DeliveryCalls) : DeliveryCalls[q][3] = o}
DeliveryEnded == trace # <<>> /\ loop_pc = "recv"
ChangedDuring(kind) ==
  \E q \in 1..Len(DeliveryCalls) : DeliveryCalls[q][4][1] = kind
EveryObserverOnce ==
  \A i \in 1..Len(AtBegin) : Cardinality(CallsOf(AtBegin[i])) = 1

\* C34 (as claimed): when the delivery of a frame has ended, every observer
\* that was registered when it began has been called exactly once, whatever
\* the observers did to the list of observers in their callbacks
C34_EveryObserverOnceEvenWhenChanged == DeliveryEnded => EveryObserverOnce

\* C34 (amended): when the delivery of a frame has ended and no observer was
\* unregistered during it, every observer that was registered when it began
\* has been called exactly once, also when observers registered new ones
\* in their callbacks
C34_EveryObserverOnceUnlessUnregistered ==
  (DeliveryEnded /\ ~ChangedDuring("unregister")) => EveryObserverOnce

\* two observers, the first of which registers a third in its callback
C34_Witness ==
  /\ DeliveryEnded /\ Len(AtBegin) = 2
  /\ ChangedDuring("register") /\ ~ChangedDuring("unregister")
  /\ Len(DeliveryCalls) = 3

\* the transports opened for the Session and the receive loops started on
\* it so far
TransportsOpened == {p \in 1..Len(trace) : trace[p][1] = "open"}
LoopsStarted == {p \in 1..Len(trace) : trace[p][1] = "loop"}

\* C35: whatever the interleaving of the connect() calls of two tasks on
\* one Session, at most one transport has been opened and at most one
\* receive loop has been started (no loop ends here, so every loop started
\* is running)
C35_AtMostOneTransportAndLoop ==
  Cardinality(TransportsOpened) <= 1 /\ Cardinality(LoopsStarted) <= 1

\* the transport was closed while the receive loop was running, and not by
\* a close() of the caller
ClosedUnderLoop ==
  loop_pc \in {"recv", "in_callback"} /\ ws = "CLOSED" /\ ~close_called

\* C36: when the transport has been closed under a running receive loop
\* without a close() of the caller, the loop eventually ends by its break
\* (not by an exception) with the state label "Disconnected" and
\* is_connected false; only steps of the loop task are assumed to be taken
C36_PeerCloseEndsLoopDisconnected ==
  ClosedUnderLoop
    ~> (loop_pc = "done" /\ connection_state = "Disconnected"
        /\ ~is_connected)

\* the peer closed the transport of a Session without a closing observer,
\* the caller never called close(), and the loop has ended
C36_Witness ==
  /\ loop_pc = "done" /\ ~close_called
  /\ \A i \in 1..Len(callbacks) : callbacks[i] # "closer"
  /\ connection_state = "Disconnected" /\ ~is_connected
  /\ \E p \in 1..Len(trace) : trace[p][1] = "closed"

\* C37: every name that munged_group_name returns for the Session's
\* document is a member of Session.groups, whatever the snapshot and the
\* version
C37_MungedNameIsInGroups ==
  (fcall.fn = "munged_group_name" /\ fcall.ret # Pending
   /\ fcall.ret.raised = "" /\ IsStr(fcall.ret.value))
    => fcall.ret.value[2] \in groups

\* C40: in the watch command run without debug, the Session's document
\* stays equal to the snapshot of the handshake whatever update frames
\* arrive
C40_WatchWithoutDebugKeepsSnapshot ==
  (watch_attr = FALSE /\ Seeded) => data.data = snapshot0.data

\* the target groups of the observer: the selected group, or every group
\* when none is selected
TargetGroups == IF IsNull(group) THEN groups ELSE {group[2]}
\* a group has resources: cpus > 0, or a GPU that is enabled
HasResources(g) ==
  LET c == GroupConfig(data.data, g)
  IN \/ (DictHas(c, JStr("cpus")) /\ DictGet(c, JStr("cpus"))[2] > 0)
     \/ /\ DictHas(c, JStr("gpus"))
        /\ \E x \in DOMAIN DictGet(c, JStr("gpus"))[2] :
             LET gpu == DictGet(c, JStr("gpus"))[2][x]
             IN DictHas(gpu, JStr("enabled"))
                /\ DictGet(gpu, JStr("enabled")) = JBool(TRUE)
Unpaused(g) ==
  LET c == GroupConfig(data.data, g)
  IN DictHas(c, JStr("paused")) /\ DictGet(c, JStr("paused")) = JBool(FALSE)
SomeTargetUnpaused == \E g \in TargetGroups : HasResources(g) /\ Unpaused(g)

\* C38: the observer has closed the Session only if no target group with
\* resources has paused false in the document; while some such group is
\* unpaused the Session is open
C38_ClosesOnlyWhenTargetsPaused ==
  /\ ws # "OPEN" => ~SomeTargetUnpaused
  /\ SomeTargetUnpaused => ws = "OPEN"

\* no group selected, two groups with resources; the observer left the
\* Session open on a frame and closed it on the frame that paused the last
\* unpaused group
C38_Witness ==
  /\ ws = "CLOSED" /\ IsNull(group) /\ Len(trace) = 2
  /\ trace[1][1] = "return" /\ trace[2][1] = "close"
  /\ IsList(trace[2][3])
  /\ \A g \in {"", "gpu"} : g \in groups /\ HasResources(g)

\* the number of updates the server had taken from its queue when it sent
\* the snapshot to the client
TakenAtSnapshot == trace[1][2]
\* the client has processed every frame sent to it
AllProcessed == loop_pc = "recv" /\ inbox = <<>>

\* C39: the frames sent to the client are the snapshot and then the
\* updates the server took from its queue after the snapshot, each once
\* and in order, and when the client has processed them all its document
\* equals the server's
C39_MirrorEqualsServerState ==
  AllProcessed =>
    /\ Len(sent) = 1 + Len(tape) - TakenAtSnapshot
    /\ \A i \in 2..Len(sent) :
         sent[i] = json_loads(tape[TakenAtSnapshot + i - 1]).value
    /\ data.data = state.data

====
